---- MODULE Spec2Model ----
(***************************************************************************)
(* The prompt lifecycle of rapid-prototyper: the prompts and prompt_events *)
(* tables, the repository functions that write them, the intake and delete *)
(* routes of the API, and the Codex worker loop (tick / processPrompt),    *)
(* one step per awaited call.                                              *)
(*                                                                         *)
(* Nullable columns and locals hold a sequence of length at most one:      *)
(* null is <<>> and the value v is <<v>>.  Strings are TLA+ strings; Len,  *)
(* SubSeq and \o read and build them character by character.               *)
(***************************************************************************)
EXTENDS Integers, Sequences, FiniteSets, TLC

\* ------------------------------------------------------------------ bounds

\* How many prompts intake creates in one behaviour.
MaxPrompts == 2

\* How many repository calls a behaviour of SpecRepo makes (its clock's cap).
MaxClock == 6

\* ------------------------------------------------------- program constants

batchSize == 2

MAX_TITLE_LENGTH == 48

MaxFailureLength == 2000

SlugLength == 12

SlugFallbackLength == 8

\* ------------------------------------------------------------ null / values

null == <<>>

Some(v) == <<v>>

Get(o) == o[1]

Min(a, b) == IF a <= b THEN a ELSE b

\* ------------------------------------------------------------------ inputs

\* The ids uuid_generate_v4() hands out, in order of insertion.  The first two
\* agree on their first twelve hexadecimal digits.
Uuids ==
  << "3f2a9c1e-7b4d-4e8a-9c1f-0a1b2c3d4e5f",
     "3f2a9c1e-7b4d-4a11-8d2e-ffeeddccbbaa",
     "b81d4fae-7dec-41d0-a765-00a0c91e6bf6",
     "0e9d7c55-12ab-4f03-b6c4-5d6e7f8091a2",
     "c4ca4238-a0b9-4382-8dcc-509a6f75849b" >>

Users == {"user-1", "user-2"}

\* What a POST body's promptText can be: missing, empty, blank, or real text.
PromptTextInputs == {null, Some(""), Some("  "), Some(" nav bar ")}

\* What the title call comes back with when it is made: its parsed response.
TitleOutcomes ==
  { [threw |-> FALSE, title |-> Some("Top Nav Bar")] }

\* What runPromptThroughCodex can come back with.
GenerationOutcomes ==
  { [threw |-> TRUE, message |-> "Codex returned an empty response",
     threadId |-> "", jsx |-> ""],
    [threw |-> FALSE, message |-> "", threadId |-> "thread-1",
     jsx |-> "export default function App() { return <nav />; }"] }

\* What compileJsxToSandboxedJs can come back with.
CompilationOutcomes ==
  { [threw |-> TRUE, message |-> "unknown: Unexpected token (1:39)", js |-> ""],
    [threw |-> FALSE, message |-> "", js |-> "function App() { return null; }"] }

\* The error a prompt_events insert raises when its prompt_id references no row.
ForeignKeyViolation ==
  "insert or update on table \"prompt_events\" violates foreign key constraint"

\* The error a prompt_events insert raises when the table rejects the statement.
EventLogError == "relation \"prompt_events\" does not exist"

\* The error a statement on prompts raises when the table rejects it.
StoreError == "Connection terminated unexpectedly"

\* ----------------------------------------------------------------- strings

Whitespace == {" ", "\t", "\n", "\r"}

Alphanumeric ==
  { "a", "b", "c", "d", "e", "f", "g", "h", "i", "j", "k", "l", "m",
    "n", "o", "p", "q", "r", "s", "t", "u", "v", "w", "x", "y", "z",
    "A", "B", "C", "D", "E", "F", "G", "H", "I", "J", "K", "L", "M",
    "N", "O", "P", "Q", "R", "S", "T", "U", "V", "W", "X", "Y", "Z",
    "0", "1", "2", "3", "4", "5", "6", "7", "8", "9" }

CharAt(s, i) == SubSeq(s, i, i)

\* String.prototype.slice(0, n)
Slice(s, n) == SubSeq(s, 1, Min(n, Len(s)))

RECURSIVE TrimStart(_)
TrimStart(s) ==
  IF Len(s) > 0 /\ CharAt(s, 1) \in Whitespace
    THEN TrimStart(SubSeq(s, 2, Len(s)))
    ELSE s

RECURSIVE TrimEnd(_)
TrimEnd(s) ==
  IF Len(s) > 0 /\ CharAt(s, Len(s)) \in Whitespace
    THEN TrimEnd(SubSeq(s, 1, Len(s) - 1))
    ELSE s

Trim(s) == TrimEnd(TrimStart(s))

\* The characters of s from position i on that the regex does not match.
RECURSIVE StripFrom(_, _)
StripFrom(s, i) ==
  IF i > Len(s) THEN ""
  ELSE (IF CharAt(s, i) \in Alphanumeric THEN CharAt(s, i) ELSE "") \o StripFrom(s, i + 1)

\* promptId.replace(/[^a-z0-9]/gi, '')
StripNonAlphanumeric(s) == StripFrom(s, 1)

\* ------------------------------------------------------------------- state

VARIABLES
  prompts,            \* the prompts table: id -> row
  events,             \* the prompt_events table, in insertion order
  now,                \* the database clock, one tick per written statement
  inserted,           \* how many prompt rows were ever inserted
  openAiApiKey,       \* config.openAiApiKey is set
  warnedAboutConfig,  \* the worker's module-level flag
  pc,                 \* where the worker loop stands
  batch,              \* tick's `prompts`: the rows findPromptsAwaitingBuild returned
  idx,                \* the position of processPrompt's `prompt` in batch
  threadId,           \* processPrompt's locals
  jsx,
  compiledJs,
  message,
  adapterCalls,       \* the adapter invocations of the current tick, in order
  tickResult,         \* how the last tick ended: "none", "returned" or "threw"
  hasFailed,          \* the stored prompts markPromptFailed has written
  idleLog,            \* the idle messages this process logged: in all, and since
                      \* its last configured tick
  faults,             \* which tables reject their statements at present
  parked,             \* the context of a second worker process, while it is not running
  envCount,           \* how many environment steps of each kind were taken
  calls               \* the helper functions called on their own: argument and result

vars ==
  << prompts, events, now, inserted, openAiApiKey, warnedAboutConfig, pc, batch,
     idx, threadId, jsx, compiledJs, message, adapterCalls, tickResult, hasFailed,
     idleLog, faults, parked, envCount, calls >>

storeVars == << prompts, events, now, inserted, hasFailed >>

workerVars ==
  << warnedAboutConfig, pc, batch, idx, threadId, jsx, compiledJs, message,
     adapterCalls, tickResult, idleLog >>

envVars == << faults, parked, envCount, calls >>

\* What no step of processPrompt touches.
quietVars == << idleLog, faults, parked, envCount, calls >>

localVars == << threadId, jsx, compiledJs, message >>

Statuses == {"pending", "building", "ready", "failed"}

PromptIds == DOMAIN prompts

\* ------------------------------------------------------- promptRepository.ts

\* orderBy('updated_at', 'desc') of listPromptsForUser
RECURSIVE OrderByUpdatedAtNewestFirst(_)
OrderByUpdatedAtNewestFirst(rows) ==
  IF rows = {} THEN <<>>
  ELSE LET first == CHOOSE r \in rows : \A q \in rows : r.updated_at >= q.updated_at
       IN  <<first>> \o OrderByUpdatedAtNewestFirst(rows \ {first})

listPromptsForUser(userId) ==
  OrderByUpdatedAtNewestFirst({prompts[p] : p \in {q \in PromptIds : prompts[q].user_id = userId}})

\* The row an insert into prompts creates: the id and both timestamps are the
\* column defaults, the artifact columns are absent from the insert.
createPrompt(params) ==
  [ id             |-> Uuids[inserted + 1],
    user_id        |-> params.userId,
    prompt_text    |-> params.promptText,
    title          |-> params.title,
    status         |-> "pending",
    codex_task_id  |-> null,
    jsx_source     |-> null,
    compiled_js    |-> null,
    preview_slug   |-> null,
    render_error   |-> null,
    sandbox_config |-> null,
    created_at     |-> now,
    updated_at     |-> now ]

InsertPrompt(row) ==
  [p \in PromptIds \cup {row.id} |-> IF p = row.id THEN row ELSE prompts[p]]

\* Mutant: the where clause names the id only, not the owner.
deletePromptMatchesAnyOwner(promptId, userId) ==
  {p \in PromptIds : p = promptId}

\* The ids deletePrompt's where clause matches (its result is their number).
deletePromptMatches(promptId, userId) ==
  {p \in PromptIds : p = promptId /\ prompts[p].user_id = userId}

deletePrompt(promptId, userId) ==
  [p \in PromptIds \ deletePromptMatches(promptId, userId) |-> prompts[p]]

\* Mutant: the foreign key has no ON DELETE CASCADE, the events stay.
CascadeEventsKeepsAll(remaining) ==
  events

\* ON DELETE CASCADE of prompt_events.prompt_id
CascadeEvents(remaining) ==
  SelectSeq(events, LAMBDA e : e.prompt_id \in remaining)

\* Mutant: failed prompts are polled again.
AwaitingBuildStatusesWithFailed == {"pending", "building", "failed"}

\* Mutant: the status filter lets ready prompts through.
AwaitingBuildStatusesWithReady == {"pending", "building", "ready"}

\* Mutant: the status filter names building only.
AwaitingBuildStatusesBuildingOnly == {"building"}

\* Mutant: a prompt marked building is taken, the query returns pending ones only.
AwaitingBuildStatusesPendingOnly == {"pending"}

AwaitingBuildStatuses == {"pending", "building"}

\* Mutant: orderBy('updated_at', 'desc').
RECURSIVE OrderByUpdatedAtDesc(_)
OrderByUpdatedAtDesc(rows) ==
  IF rows = {} THEN <<>>
  ELSE LET first == CHOOSE r \in rows : \A q \in rows : r.updated_at >= q.updated_at
       IN  <<first>> \o OrderByUpdatedAtDesc(rows \ {first})

RECURSIVE OrderByUpdatedAtAsc(_)
OrderByUpdatedAtAsc(rows) ==
  IF rows = {} THEN <<>>
  ELSE LET first == CHOOSE r \in rows : \A q \in rows : r.updated_at <= q.updated_at
       IN  <<first>> \o OrderByUpdatedAtAsc(rows \ {first})

findPromptsAwaitingBuild(limit) ==
  LET rows == {prompts[p] : p \in {q \in PromptIds : prompts[q].status \in AwaitingBuildStatuses}}
      ordered == OrderByUpdatedAtAsc(rows)
  IN  SubSeq(ordered, 1, Min(limit, Len(ordered)))

\* Mutant: the thread id argument is never written.
markPromptBuildingDropsThread(promptId, codexTaskId) ==
  [p \in PromptIds |->
     IF p # promptId THEN prompts[p]
     ELSE [prompts[p] EXCEPT !.status = "building", !.updated_at = now]]

\* Mutant: the update stamps created_at as well.
markPromptBuildingStampsCreatedAt(promptId, codexTaskId) ==
  [p \in PromptIds |->
     IF p # promptId THEN prompts[p]
     ELSE IF codexTaskId # null /\ Get(codexTaskId) # ""
     THEN [prompts[p] EXCEPT !.status = "building", !.updated_at = now,
                             !.created_at = now, !.codex_task_id = codexTaskId]
     ELSE [prompts[p] EXCEPT !.status = "building", !.updated_at = now,
                             !.created_at = now]]

\* Mutant: the update sets the status and leaves updated_at alone.
markPromptBuildingKeepsUpdatedAt(promptId, codexTaskId) ==
  [p \in PromptIds |->
     IF p # promptId THEN prompts[p]
     ELSE IF codexTaskId # null /\ Get(codexTaskId) # ""
     THEN [prompts[p] EXCEPT !.status = "building", !.codex_task_id = codexTaskId]
     ELSE [prompts[p] EXCEPT !.status = "building"]]

\* `if (codexTaskId)`: an absent or empty argument leaves the column alone.
markPromptBuilding(promptId, codexTaskId) ==
  [p \in PromptIds |->
     IF p # promptId THEN prompts[p]
     ELSE IF codexTaskId # null /\ Get(codexTaskId) # ""
       THEN [prompts[p] EXCEPT !.status = "building", !.updated_at = now,
                               !.codex_task_id = codexTaskId]
       ELSE [prompts[p] EXCEPT !.status = "building", !.updated_at = now]]

\* Mutant: the update clears what an earlier build has stored.
markPromptFailedClearsBuild(promptId, errorMessage) ==
  LET truncated == Slice(errorMessage, MaxFailureLength)
  IN  [p \in PromptIds |->
         IF p # promptId THEN prompts[p]
         ELSE [prompts[p] EXCEPT !.status = "failed",
                                 !.render_error = Some(truncated),
                                 !.compiled_js = null,
                                 !.updated_at = now]]

\* Mutant: the update leaves render_error out.
markPromptFailedStatusOnly(promptId, errorMessage) ==
  [p \in PromptIds |->
     IF p # promptId THEN prompts[p]
     ELSE [prompts[p] EXCEPT !.status = "failed", !.updated_at = now]]

\* Mutant: the update writes the reason and leaves the status as it is.
markPromptFailedKeepsStatus(promptId, errorMessage) ==
  LET truncated == Slice(errorMessage, MaxFailureLength)
  IN  [p \in PromptIds |->
         IF p # promptId THEN prompts[p]
         ELSE [prompts[p] EXCEPT !.render_error = Some(truncated),
                                 !.updated_at = now]]

\* Mutant: the error message is stored whole.
markPromptFailedWithoutSlice(promptId, errorMessage) ==
  [p \in PromptIds |->
     IF p # promptId THEN prompts[p]
     ELSE [prompts[p] EXCEPT !.status = "failed",
                             !.render_error = Some(errorMessage),
                             !.updated_at = now]]

markPromptFailed(promptId, errorMessage) ==
  LET truncated == Slice(errorMessage, MaxFailureLength)
  IN  [p \in PromptIds |->
         IF p # promptId THEN prompts[p]
         ELSE [prompts[p] EXCEPT !.status = "failed",
                                 !.render_error = Some(truncated),
                                 !.updated_at = now]]

\* Mutant: the update leaves sandbox_config out.
savePromptBuildResultWithoutSandboxConfig(promptId, artifacts) ==
  [p \in PromptIds |->
     IF p # promptId THEN prompts[p]
     ELSE [prompts[p] EXCEPT !.status = "ready",
                             !.jsx_source = Some(artifacts.jsxSource),
                             !.compiled_js = Some(artifacts.compiledJs),
                             !.preview_slug = Some(artifacts.previewSlug),
                             !.render_error = null,
                             !.updated_at = now]]

\* Mutant: the update leaves compiled_js out.
savePromptBuildResultWithoutCompiledJs(promptId, artifacts) ==
  [p \in PromptIds |->
     IF p # promptId THEN prompts[p]
     ELSE [prompts[p] EXCEPT !.status = "ready",
                             !.jsx_source = Some(artifacts.jsxSource),
                             !.preview_slug = Some(artifacts.previewSlug),
                             !.sandbox_config = Some(artifacts.sandboxConfig),
                             !.render_error = null,
                             !.updated_at = now]]

\* Mutant: the update leaves jsx_source out.
savePromptBuildResultWithoutJsxSource(promptId, artifacts) ==
  [p \in PromptIds |->
     IF p # promptId THEN prompts[p]
     ELSE [prompts[p] EXCEPT !.status = "ready",
                             !.compiled_js = Some(artifacts.compiledJs),
                             !.preview_slug = Some(artifacts.previewSlug),
                             !.sandbox_config = Some(artifacts.sandboxConfig),
                             !.render_error = null,
                             !.updated_at = now]]

\* Mutant: the update does not clear render_error.
savePromptBuildResultKeepsRenderError(promptId, artifacts) ==
  [p \in PromptIds |->
     IF p # promptId THEN prompts[p]
     ELSE [prompts[p] EXCEPT !.status = "ready",
                             !.jsx_source = Some(artifacts.jsxSource),
                             !.compiled_js = Some(artifacts.compiledJs),
                             !.preview_slug = Some(artifacts.previewSlug),
                             !.sandbox_config = Some(artifacts.sandboxConfig),
                             !.updated_at = now]]

\* Mutant: the update writes the artifacts and leaves the status alone.
savePromptBuildResultKeepsStatus(promptId, artifacts) ==
  [p \in PromptIds |->
     IF p # promptId THEN prompts[p]
     ELSE [prompts[p] EXCEPT !.jsx_source = Some(artifacts.jsxSource),
                             !.compiled_js = Some(artifacts.compiledJs),
                             !.preview_slug = Some(artifacts.previewSlug),
                             !.sandbox_config = Some(artifacts.sandboxConfig),
                             !.render_error = null,
                             !.updated_at = now]]

savePromptBuildResult(promptId, artifacts) ==
  [p \in PromptIds |->
     IF p # promptId THEN prompts[p]
     ELSE [prompts[p] EXCEPT !.status = "ready",
                             !.jsx_source = Some(artifacts.jsxSource),
                             !.compiled_js = Some(artifacts.compiledJs),
                             !.preview_slug = Some(artifacts.previewSlug),
                             !.sandbox_config = Some(artifacts.sandboxConfig),
                             !.render_error = null,
                             !.updated_at = now]]

\* --------------------------------------------------- promptEventRepository.ts

\* Mutant: the table has no reference to prompts.
recordPromptEventAcceptedWithoutReference(promptId) == ~faults.eventLog

\* The insert succeeds only when the table takes statements and prompt_id
\* references a row of prompts.
recordPromptEventAccepted(promptId) == ~faults.eventLog /\ promptId \in PromptIds

\* The error the rejected insert rejects with.
recordPromptEventError == IF faults.eventLog THEN EventLogError ELSE ForeignKeyViolation

recordPromptEvent(promptId, level, text, context) ==
  Append(events, [ prompt_id  |-> promptId,
                   level      |-> level,
                   message    |-> text,
                   context    |-> context,
                   created_at |-> now ])

\* .limit(n) on an ordered result
Limit(rows, n) == SubSeq(rows, 1, Min(n, Len(rows)))

\* orderBy('created_at', 'desc'): events holds the rows in insertion order and
\* every insert is stamped with a later clock value, so this is events reversed.
OrderByCreatedAtDesc(rows) ==
  [i \in 1..Len(rows) |-> rows[Len(rows) + 1 - i]]

\* listPromptEvents(promptId, limit)
listPromptEvents(promptId, limit) ==
  Limit(OrderByCreatedAtDesc(SelectSeq(events, LAMBDA e : e.prompt_id = promptId)), limit)

\* The rows the one query of listPromptEventsForPrompts returns: the newest
\* perPromptLimit * promptIds.length events of all requested prompts together.
listPromptEventsForPromptsRows(promptIds, perPromptLimit) ==
  Limit(OrderByCreatedAtDesc(
          SelectSeq(events, LAMBDA e : \E i \in 1..Len(promptIds) : promptIds[i] = e.prompt_id)),
        perPromptLimit * Len(promptIds))

\* The Map it builds from them: a prompt gets an entry with its first row, and
\* rows beyond perPromptLimit of one prompt are skipped.
listPromptEventsForPrompts(promptIds, perPromptLimit) ==
  IF Len(promptIds) = 0 THEN << >>
  ELSE LET rows == listPromptEventsForPromptsRows(promptIds, perPromptLimit)
           bucket(id) == Limit(SelectSeq(rows, LAMBDA e : e.prompt_id = id), perPromptLimit)
       IN  [id \in {rows[k].prompt_id : k \in {j \in 1..Len(rows) : perPromptLimit > 0}}
              |-> bucket(id)]

\* ----------------------------------------------------------- titleGenerator.ts

\* Mutant: the text is cut at MAX_TITLE_LENGTH, the dots come on top.
fallbackTitleCutsAtMax(promptText) ==
  LET normalized == Trim(promptText)
  IN  IF normalized = "" THEN "Untitled prompt"
      ELSE IF Len(normalized) <= MAX_TITLE_LENGTH THEN normalized
      ELSE TrimEnd(Slice(normalized, MAX_TITLE_LENGTH)) \o "..."

fallbackTitle(promptText) ==
  LET normalized == Trim(promptText)
  IN  IF normalized = "" THEN "Untitled prompt"
      ELSE IF Len(normalized) <= MAX_TITLE_LENGTH THEN normalized
      ELSE TrimEnd(Slice(normalized, MAX_TITLE_LENGTH - 3)) \o "..."

\* JSON.parse on the texts the title calls below answer with: "{}", an object
\* with the one string member title (no quote or backslash inside), and texts
\* that are no JSON.
JsonParseTitle(text) ==
  IF text = "{}" THEN [ok |-> TRUE, title |-> null]
  ELSE IF /\ Len(text) >= 12
          /\ SubSeq(text, 1, 10) = "{\"title\":\""
          /\ SubSeq(text, Len(text) - 1, Len(text)) = "\"}"
          /\ \A i \in 11..(Len(text) - 2) : CharAt(text, i) \notin {"\"", "\\"}
       THEN [ok |-> TRUE, title |-> Some(SubSeq(text, 11, Len(text) - 2))]
       ELSE [ok |-> FALSE, title |-> null]

\* The words of s from position i on, cur being the word begun before i:
\* candidate.replace(/["\n]/g, ' ').replace(/\s+/g, ' ').trim().split(' ')
RECURSIVE WordsFrom(_, _, _)
WordsFrom(s, i, cur) ==
  IF i > Len(s) THEN (IF cur = "" THEN << >> ELSE << cur >>)
  ELSE IF CharAt(s, i) \in Whitespace \cup {"\""}
    THEN (IF cur = "" THEN << >> ELSE << cur >>) \o WordsFrom(s, i + 1, "")
    ELSE WordsFrom(s, i + 1, cur \o CharAt(s, i))

\* words.join(' ')
RECURSIVE JoinWords(_)
JoinWords(words) ==
  IF Len(words) = 0 THEN ""
  ELSE IF Len(words) = 1 THEN words[1]
  ELSE words[1] \o " " \o JoinWords(Tail(words))

\* The words of a generated title that are kept.
MaxTitleWords == 5

normalizeGeneratedTitle(candidate) ==
  LET words == WordsFrom(candidate, 1, "")
  IN  IF Len(words) = 0 THEN null
      ELSE Some(JoinWords(SubSeq(words, 1, Min(MaxTitleWords, Len(words)))))

parseTitleResponse(response) ==
  LET parsed == JsonParseTitle(response)
  IN  IF ~parsed.ok THEN null
      ELSE IF parsed.title = null \/ parsed.title = Some("") THEN null
      ELSE normalizeGeneratedTitle(Get(parsed.title))

\* What the try block of generatePromptTitle comes to when the SDK behaves as
\* in call: it threw, or it parsed the final response.
titleAttempt(call) ==
  IF call.runError # null THEN [threw |-> TRUE, title |-> null]
  ELSE [threw |-> FALSE,
        title |-> parseTitleResponse(IF call.finalResponse = null THEN ""
                                     ELSE Get(call.finalResponse))]

\* Whether generatePromptTitle gets as far as the SDK for this text.
generatePromptTitleCallsOut(promptText) ==
  Trim(promptText) # "" /\ openAiApiKey

\* Mutant: the credential is not looked at before the SDK is called.
generatePromptTitleWithoutConfigCheck(promptText, outcome) ==
  IF Trim(promptText) = "" THEN fallbackTitle(promptText)
  ELSE IF ~outcome.threw /\ outcome.title # null THEN Get(outcome.title)
  ELSE fallbackTitle(promptText)

generatePromptTitle(promptText, outcome) ==
  IF Trim(promptText) = "" THEN fallbackTitle(promptText)
  ELSE IF ~openAiApiKey THEN fallbackTitle(promptText)
  ELSE IF ~outcome.threw /\ outcome.title # null THEN Get(outcome.title)
  ELSE fallbackTitle(promptText)

\* ------------------------------------------------------------ codexService.ts

\* JSON.parse on the texts the calls below are made with: "{}", an object with
\* the one string member jsx (no quote or backslash inside), and texts that
\* are no JSON. ok is FALSE where JSON.parse throws a SyntaxError.
JsonParse(text) ==
  IF text = "{}" THEN [ok |-> TRUE, jsx |-> null]
  ELSE IF /\ Len(text) >= 10
          /\ SubSeq(text, 1, 8) = "{\"jsx\":\""
          /\ SubSeq(text, Len(text) - 1, Len(text)) = "\"}"
          /\ \A i \in 9..(Len(text) - 2) : CharAt(text, i) \notin {"\"", "\\"}
       THEN [ok |-> TRUE, jsx |-> Some(SubSeq(text, 9, Len(text) - 2))]
       ELSE [ok |-> FALSE, jsx |-> null]

\* extractCodeFromResponse on one line of text without a code fence: whether or
\* not the line starts like code, what comes back is the text trimmed.
extractCodeFromResponse(response) == Trim(response)

\* new Error(message), as the caller's catch block sees it
Error(text) == [name |-> "Error", message |-> text]

\* runPromptThroughCodex rejects with error.
Rejected(error) ==
  [threw |-> TRUE, error |-> Some(error), threadId |-> null, jsx |-> null]

\* runPromptThroughCodex: call holds what the SDK does when it is reached
\* (thread.run rejecting with an error of its own, turn.finalResponse,
\* thread.id); the credential is config.openAiApiKey.
runPromptThroughCodex(call) ==
  IF ~openAiApiKey
    THEN Rejected(Error("Codex SDK is not configured. Set OPENAI_API_KEY."))
  ELSE IF call.runError # null THEN Rejected(Get(call.runError))
  ELSE LET finalResponse == Trim(IF call.finalResponse = null THEN ""
                                 ELSE Get(call.finalResponse))
           parsed        == JsonParse(finalResponse)
           structuredJsx == IF parsed.jsx = null THEN "" ELSE Trim(Get(parsed.jsx))
           extractedJsx  == extractCodeFromResponse(structuredJsx)
       IN  IF finalResponse = ""
             THEN Rejected(Error("Codex returned an empty response"))
           ELSE IF ~parsed.ok
             THEN Rejected(Error("Codex returned malformed JSON: Unexpected token"))
           ELSE IF structuredJsx = ""
             THEN Rejected(Error("Codex did not provide JSX in the structured response"))
           ELSE IF extractedJsx = ""
             THEN Rejected(Error("Codex did not return any React component code"))
           ELSE IF call.threadId = null \/ call.threadId = Some("")
             THEN Rejected(Error("Codex thread did not provide an identifier"))
           ELSE [threw |-> FALSE, error |-> null,
                 threadId |-> call.threadId, jsx |-> Some(extractedJsx)]

\* -------------------------------------------------------------- codexWorker.ts

\* Mutant: the slug is made from the time of the build.
buildPreviewSlugFromClock(promptId) ==
  "preview-" \o ToString(now)

\* Mutant: the id is cut to 12 characters first and the hyphens removed after.
buildPreviewSlugCutsFirst(promptId) ==
  LET compact == StripNonAlphanumeric(Slice(promptId, SlugLength))
  IN  "preview-" \o (IF compact # "" THEN compact ELSE Slice(promptId, SlugFallbackLength))

buildPreviewSlug(promptId) ==
  LET compact == Slice(StripNonAlphanumeric(promptId), SlugLength)
  IN  "preview-" \o (IF compact # "" THEN compact ELSE Slice(promptId, SlugFallbackLength))

buildSandboxConfig ==
  [ runtime        |-> "react18",
    allowedGlobals |-> <<"React", "useState", "useEffect">>,
    compiledAt     |-> now ]

\* adapterCalls after one more call: which adapter, for which prompt, with
\* which argument, and what came back.
Called(adapter, promptId, input, outcome) ==
  Append(adapterCalls, [ adapter  |-> adapter,
                         promptId |-> promptId,
                         input    |-> input,
                         threw    |-> outcome.threw,
                         message  |-> outcome.message,
                         threadId |-> IF adapter = "generate" /\ ~outcome.threw
                                        THEN Some(outcome.threadId) ELSE null,
                         output   |-> IF outcome.threw THEN null
                                      ELSE IF adapter = "generate" THEN Some(outcome.jsx)
                                      ELSE Some(outcome.js) ])

\* processPrompt's `prompt`: the row as the tick's query returned it.
prompt == batch[idx]

\* processPrompt returns: the for loop of tick takes the next row, or tick returns.
PromptDone ==
  /\ threadId' = null
  /\ jsx' = null
  /\ compiledJs' = null
  /\ message' = null
  /\ IF idx < Len(batch)
       THEN /\ idx' = idx + 1
            /\ pc' = "recordProcessing"
            /\ UNCHANGED tickResult
       ELSE /\ idx' = 0
            /\ pc' = "sleep"
            /\ tickResult' = "returned"

\* Mutant: runLoop has no try/catch around tick, so the rejection ends the loop.
TickThrowsEndsLoop ==
  /\ threadId' = null
  /\ jsx' = null
  /\ compiledJs' = null
  /\ message' = null
  /\ idx' = 0
  /\ pc' = "crashed"
  /\ tickResult' = "threw"

\* An error leaves processPrompt: tick rejects, runLoop logs it and sleeps.
TickThrows ==
  /\ threadId' = null
  /\ jsx' = null
  /\ compiledJs' = null
  /\ message' = null
  /\ idx' = 0
  /\ pc' = "sleep"
  /\ tickResult' = "threw"

\* Mutant: the catch block rethrows, so processPrompt and the tick end here.
CaughtRethrown(errorMessage) ==
  /\ message' = Some(errorMessage)
  /\ pc' = "sleep"

\* Mutant: the catch block records the event and never stores the failure.
CaughtWithoutMarkFailed(errorMessage) ==
  /\ message' = Some(errorMessage)
  /\ pc' = "recordFailed"

\* The catch block of processPrompt is entered with this error.
Caught(errorMessage) ==
  /\ message' = Some(errorMessage)
  /\ pc' = "markFailed"

\* ------------------------------------------------------------------- actions

Init ==
  /\ prompts = <<>>
  /\ events = <<>>
  /\ now = 1
  /\ inserted = 0
  /\ openAiApiKey \in BOOLEAN
  /\ warnedAboutConfig = FALSE
  /\ pc = "sleep"
  /\ batch = <<>>
  /\ idx = 0
  /\ threadId = null
  /\ jsx = null
  /\ compiledJs = null
  /\ message = null
  /\ adapterCalls = <<>>
  /\ tickResult = "none"
  /\ hasFailed = {}
  /\ idleLog = [total |-> 0, sinceConfigured |-> 0]
  /\ faults = [store |-> FALSE, eventLog |-> FALSE]
  /\ parked = null
  /\ envCount = [switches |-> 0, restarts |-> 0, configChanges |-> 0, faultChanges |-> 0]
  /\ calls = << >>

\* Mutant: the handler tests !promptText only, blank text is taken in.
PostWithoutTrim(userId, promptText, titleOutcome) ==
  /\ IF promptText = null \/ Get(promptText) = ""
       THEN UNCHANGED storeVars
       ELSE IF faults.store
       THEN UNCHANGED storeVars
       ELSE /\ prompts' = InsertPrompt(createPrompt(
                 [ userId     |-> userId,
                   promptText |-> Get(promptText),
                   title      |-> generatePromptTitle(Get(promptText), titleOutcome) ]))
            /\ inserted' = inserted + 1
            /\ now' = now + 1
            /\ UNCHANGED << events, hasFailed >>
  /\ UNCHANGED << openAiApiKey, workerVars, envVars >>

\* routes/prompts.ts, router.post('/'): 400 for missing or blank text, else the
\* title is resolved and one row is inserted.
Post(userId, promptText, titleOutcome) ==
  /\ IF promptText = null \/ Get(promptText) = "" \/ Trim(Get(promptText)) = ""
       THEN UNCHANGED storeVars
       ELSE IF faults.store
       THEN UNCHANGED storeVars
       ELSE /\ prompts' = InsertPrompt(createPrompt(
                 [ userId     |-> userId,
                   promptText |-> Get(promptText),
                   title      |-> generatePromptTitle(Get(promptText), titleOutcome) ]))
            /\ inserted' = inserted + 1
            /\ now' = now + 1
            /\ UNCHANGED << events, hasFailed >>
  /\ UNCHANGED << openAiApiKey, workerVars, envVars >>

\* The requests taken in: no more than MaxPrompts of them insert a row.
Intake(userId, promptText, titleOutcome) ==
  /\ inserted < MaxPrompts
  /\ Post(userId, promptText, titleOutcome)

\* routes/prompts.ts, router.delete('/:promptId')
Delete(userId, promptId) ==
  /\ ~faults.store
  /\ prompts' = deletePrompt(promptId, userId)
  /\ events' = CascadeEvents(DOMAIN deletePrompt(promptId, userId))
  /\ hasFailed' = hasFailed \cap DOMAIN deletePrompt(promptId, userId)
  /\ UNCHANGED << now, inserted, openAiApiKey, workerVars, envVars >>

\* idleLog after logInfo('Codex worker idle: OPENAI_API_KEY is not configured')
IdleLogged ==
  [ total           |-> idleLog.total + 1,
    sinceConfigured |-> idleLog.sinceConfigured + 1 ]

\* Mutant: the idle branch logs and never sets warnedAboutConfig.
TickWithoutWarnedFlag ==
  /\ pc = "sleep"
  /\ IF ~openAiApiKey
       THEN /\ UNCHANGED warnedAboutConfig
            /\ idleLog' = IF warnedAboutConfig THEN idleLog ELSE IdleLogged
            /\ tickResult' = "returned"
            /\ UNCHANGED << pc, batch, idx, adapterCalls >>
       ELSE /\ warnedAboutConfig' = FALSE
            /\ idleLog' = [idleLog EXCEPT !.sinceConfigured = 0]
            /\ adapterCalls' = <<>>
            /\ IF faults.store
                 THEN /\ batch' = <<>>
                      /\ tickResult' = "threw"
                      /\ UNCHANGED << pc, idx >>
                 ELSE /\ batch' = findPromptsAwaitingBuild(batchSize)
                      /\ IF batch' = <<>>
                           THEN /\ tickResult' = "returned"
                                /\ UNCHANGED << pc, idx >>
                           ELSE /\ pc' = "recordProcessing"
                                /\ idx' = 1
                                /\ UNCHANGED tickResult
  /\ UNCHANGED << storeVars, openAiApiKey, localVars, envVars >>

\* runLoop wakes and calls tick, up to the end of the eligibility query.
Tick ==
  /\ pc = "sleep"
  /\ IF ~openAiApiKey
       THEN /\ warnedAboutConfig' = TRUE
            /\ idleLog' = IF warnedAboutConfig THEN idleLog ELSE IdleLogged
            /\ tickResult' = "returned"
            /\ UNCHANGED << pc, batch, idx, adapterCalls >>
       ELSE /\ warnedAboutConfig' = FALSE
            /\ idleLog' = [idleLog EXCEPT !.sinceConfigured = 0]
            /\ adapterCalls' = <<>>
            /\ IF faults.store
                 THEN /\ batch' = <<>>
                      /\ tickResult' = "threw"
                      /\ UNCHANGED << pc, idx >>
                 ELSE /\ batch' = findPromptsAwaitingBuild(batchSize)
                      /\ IF batch' = <<>>
                           THEN /\ tickResult' = "returned"
                                /\ UNCHANGED << pc, idx >>
                           ELSE /\ pc' = "recordProcessing"
                                /\ idx' = 1
                                /\ UNCHANGED tickResult
  /\ UNCHANGED << storeVars, openAiApiKey, localVars, envVars >>

\* Mutant: the event is written after the update and carries the new status.
RecordProcessingAfterMarking ==
  /\ pc = "recordProcessing"
  /\ IF recordPromptEventAccepted(prompt.id)
       THEN /\ events' = recordPromptEvent(prompt.id, "info",
                           "Codex worker: processing prompt", [status |-> "building"])
            /\ now' = now + 1
            /\ pc' = "markBuilding"
            /\ UNCHANGED << idx, localVars, tickResult >>
       ELSE /\ TickThrows
            /\ UNCHANGED << events, now >>
  /\ UNCHANGED << prompts, inserted, hasFailed, openAiApiKey, warnedAboutConfig, batch,
                  adapterCalls,
                  quietVars >>

\* codexWorker.ts:41, outside the try block
RecordProcessing ==
  /\ pc = "recordProcessing"
  /\ IF recordPromptEventAccepted(prompt.id)
       THEN /\ events' = recordPromptEvent(prompt.id, "info",
                           "Codex worker: processing prompt", [status |-> prompt.status])
            /\ now' = now + 1
            /\ pc' = "markBuilding"
            /\ UNCHANGED << idx, localVars, tickResult >>
       ELSE /\ TickThrows
            /\ UNCHANGED << events, now >>
  /\ UNCHANGED << prompts, inserted, hasFailed, openAiApiKey, warnedAboutConfig, batch,
                  adapterCalls,
                  quietVars >>

\* codexWorker.ts:46
MarkBuilding ==
  /\ pc = "markBuilding"
  /\ IF faults.store
       THEN /\ Caught(StoreError)
            /\ UNCHANGED << prompts, now >>
       ELSE /\ prompts' = markPromptBuilding(prompt.id, null)
            /\ now' = now + 1
            /\ pc' = "generate"
            /\ UNCHANGED message
  /\ UNCHANGED << events, inserted, hasFailed, openAiApiKey, warnedAboutConfig, batch,
                  idx, threadId, jsx, compiledJs, adapterCalls, tickResult, quietVars >>

\* Mutant: generation always starts a new thread, the stored handle is not passed.
GenerateWithoutHandle(outcome) ==
  /\ pc = "generate"
  /\ adapterCalls' = Called("generate", prompt.id, null, outcome)
  /\ IF outcome.threw
       THEN /\ Caught(outcome.message)
            /\ UNCHANGED << threadId, jsx >>
       ELSE /\ threadId' = Some(outcome.threadId)
            /\ jsx' = Some(outcome.jsx)
            /\ pc' = IF prompt.codex_task_id # Some(outcome.threadId)
                       THEN "saveThread" ELSE "recordJsx"
            /\ UNCHANGED message
  /\ UNCHANGED << storeVars, openAiApiKey, warnedAboutConfig, batch, idx, compiledJs,
                  tickResult, quietVars >>

\* Mutant: the returned handle is never compared, the second write never made.
GenerateNeverSavesHandle(outcome) ==
  /\ pc = "generate"
  /\ adapterCalls' = Called("generate", prompt.id, prompt.codex_task_id, outcome)
  /\ IF outcome.threw
       THEN /\ Caught(outcome.message)
            /\ UNCHANGED << threadId, jsx >>
       ELSE /\ threadId' = Some(outcome.threadId)
            /\ jsx' = Some(outcome.jsx)
            /\ pc' = "recordJsx"
            /\ UNCHANGED message
  /\ UNCHANGED << storeVars, openAiApiKey, warnedAboutConfig, batch, idx, compiledJs,
                  tickResult, quietVars >>

\* codexWorker.ts:48-49
Generate(outcome) ==
  /\ pc = "generate"
  /\ adapterCalls' = Called("generate", prompt.id, prompt.codex_task_id, outcome)
  /\ IF outcome.threw
       THEN /\ Caught(outcome.message)
            /\ UNCHANGED << threadId, jsx >>
       ELSE /\ threadId' = Some(outcome.threadId)
            /\ jsx' = Some(outcome.jsx)
            /\ pc' = IF prompt.codex_task_id # Some(outcome.threadId)
                       THEN "saveThread" ELSE "recordJsx"
            /\ UNCHANGED message
  /\ UNCHANGED << storeVars, openAiApiKey, warnedAboutConfig, batch, idx, compiledJs,
                  tickResult,
                  quietVars >>

\* codexWorker.ts:50
SaveThread ==
  /\ pc = "saveThread"
  /\ IF faults.store
       THEN /\ Caught(StoreError)
            /\ UNCHANGED << prompts, now >>
       ELSE /\ prompts' = markPromptBuilding(prompt.id, threadId)
            /\ now' = now + 1
            /\ pc' = "recordJsx"
            /\ UNCHANGED message
  /\ UNCHANGED << events, inserted, hasFailed, openAiApiKey, warnedAboutConfig, batch,
                  idx, threadId, jsx, compiledJs, adapterCalls, tickResult, quietVars >>

\* codexWorker.ts:59
RecordJsx ==
  /\ pc = "recordJsx"
  /\ IF recordPromptEventAccepted(prompt.id)
       THEN /\ events' = recordPromptEvent(prompt.id, "info",
                           "Codex worker: JSX received", [threadId |-> Get(threadId)])
            /\ now' = now + 1
            /\ pc' = "compile"
            /\ UNCHANGED message
       ELSE /\ Caught(recordPromptEventError)
            /\ UNCHANGED << events, now >>
  /\ UNCHANGED << prompts, inserted, hasFailed, openAiApiKey, warnedAboutConfig, batch,
                  idx, threadId, jsx, compiledJs, adapterCalls, tickResult,
                  quietVars >>

\* codexWorker.ts:63
Compile(outcome) ==
  /\ pc = "compile"
  /\ adapterCalls' = Called("compile", prompt.id, jsx, outcome)
  /\ IF outcome.threw
       THEN /\ Caught(outcome.message)
            /\ UNCHANGED compiledJs
       ELSE /\ compiledJs' = Some(outcome.js)
            /\ pc' = "saveResult"
            /\ UNCHANGED message
  /\ UNCHANGED << storeVars, openAiApiKey, warnedAboutConfig, batch, idx, threadId, jsx,
                  tickResult,
                  quietVars >>

\* codexWorker.ts:64: prompt.preview_slug ?? buildPreviewSlug(prompt.id)
previewSlug ==
  IF prompt.preview_slug # null THEN Get(prompt.preview_slug) ELSE buildPreviewSlug(prompt.id)

\* codexWorker.ts:64-72
SaveResult ==
  /\ pc = "saveResult"
  /\ IF faults.store
       THEN /\ Caught(StoreError)
            /\ UNCHANGED << prompts, now >>
       ELSE /\ prompts' = savePromptBuildResult(prompt.id,
                            [ jsxSource     |-> Get(jsx),
                              compiledJs    |-> Get(compiledJs),
                              previewSlug   |-> previewSlug,
                              sandboxConfig |-> buildSandboxConfig ])
            /\ now' = now + 1
            /\ pc' = "recordReady"
            /\ UNCHANGED message
  /\ UNCHANGED << events, inserted, hasFailed, openAiApiKey, warnedAboutConfig, batch,
                  idx, threadId, jsx, compiledJs, adapterCalls, tickResult, quietVars >>

\* codexWorker.ts:74, still inside the try block
RecordReady ==
  /\ pc = "recordReady"
  /\ IF recordPromptEventAccepted(prompt.id)
       THEN /\ events' = recordPromptEvent(prompt.id, "info",
                           "Codex worker: prompt ready", [previewSlug |-> previewSlug])
            /\ now' = now + 1
            /\ PromptDone
       ELSE /\ Caught(recordPromptEventError)
            /\ UNCHANGED << events, now, idx, threadId, jsx, compiledJs, tickResult >>
  /\ UNCHANGED << prompts, inserted, hasFailed, openAiApiKey, warnedAboutConfig, batch,
                  adapterCalls,
                  quietVars >>

\* Mutant: the catch block stores the failure and records no event.
MarkFailedWithoutEvent ==
  /\ pc = "markFailed"
  /\ IF faults.store
       THEN /\ TickThrows
            /\ UNCHANGED << prompts, hasFailed, now >>
       ELSE /\ prompts' = markPromptFailed(prompt.id, Get(message))
            /\ hasFailed' = hasFailed \cup ({prompt.id} \cap PromptIds)
            /\ now' = now + 1
            /\ PromptDone
  /\ UNCHANGED << events, inserted, openAiApiKey, warnedAboutConfig, batch,
                  adapterCalls, quietVars >>

\* codexWorker.ts:79-80
MarkFailed ==
  /\ pc = "markFailed"
  /\ IF faults.store
       THEN /\ TickThrows
            /\ UNCHANGED << prompts, hasFailed, now >>
       ELSE /\ prompts' = markPromptFailed(prompt.id, Get(message))
            /\ hasFailed' = hasFailed \cup ({prompt.id} \cap PromptIds)
            /\ now' = now + 1
            /\ pc' = "recordFailed"
            /\ UNCHANGED << idx, localVars, tickResult >>
  /\ UNCHANGED << events, inserted, openAiApiKey, warnedAboutConfig, batch,
                  adapterCalls, quietVars >>

\* Mutant: the catch block ignores the rejection of its event insert.
RecordFailedSwallowsRejection ==
  /\ pc = "recordFailed"
  /\ IF recordPromptEventAccepted(prompt.id)
       THEN /\ events' = recordPromptEvent(prompt.id, "error",
                           "Codex worker: build failed", [error |-> Get(message)])
            /\ now' = now + 1
            /\ PromptDone
       ELSE /\ PromptDone
            /\ UNCHANGED << events, now >>
  /\ UNCHANGED << prompts, inserted, hasFailed, openAiApiKey, warnedAboutConfig, batch,
                  adapterCalls,
                  quietVars >>

\* codexWorker.ts:81, inside the catch block: its own error is not caught
RecordFailed ==
  /\ pc = "recordFailed"
  /\ IF recordPromptEventAccepted(prompt.id)
       THEN /\ events' = recordPromptEvent(prompt.id, "error",
                           "Codex worker: build failed", [error |-> Get(message)])
            /\ now' = now + 1
            /\ PromptDone
       ELSE /\ TickThrows
            /\ UNCHANGED << events, now >>
  /\ UNCHANGED << prompts, inserted, hasFailed, openAiApiKey, warnedAboutConfig, batch,
                  adapterCalls,
                  quietVars >>

Api ==
  \/ \E u \in Users, t \in PromptTextInputs, o \in TitleOutcomes : Intake(u, t, o)
  \/ \E u \in Users, i \in 1..Min(inserted + 1, Len(Uuids)) : Delete(u, Uuids[i])

Worker ==
  \/ Tick
  \/ RecordProcessing
  \/ MarkBuilding
  \/ \E o \in GenerationOutcomes : Generate(o)
  \/ SaveThread
  \/ RecordJsx
  \/ \E o \in CompilationOutcomes : Compile(o)
  \/ SaveResult
  \/ RecordReady
  \/ MarkFailed
  \/ RecordFailed

Next == Api \/ Worker

Spec == Init /\ [][Next]_vars

\* ----------------------------------------------------------- the environment
\* What happens around the worker loop: the process is stopped and started
\* again, a second worker process polls the same store, the configuration
\* changes, a table rejects its statements for a while. Each kind of step is
\* counted in envCount and bounded, and each has a specification of its own.

MaxSwitches == 2

MaxRestarts == 1

MaxConfigChanges == 2

MaxFaultChanges == 2

\* The state of one worker process: its module-level flag, where its loop
\* stands, the locals of tick and processPrompt, and what it has logged.
context ==
  [ warnedAboutConfig |-> warnedAboutConfig,
    pc                |-> pc,
    batch             |-> batch,
    idx               |-> idx,
    threadId          |-> threadId,
    jsx               |-> jsx,
    compiledJs        |-> compiledJs,
    message           |-> message,
    adapterCalls      |-> adapterCalls,
    tickResult        |-> tickResult,
    idleLog           |-> idleLog ]

\* A worker process that has just started: codexWorker.ts:16 and the first
\* iteration of runLoop not yet begun.
startedContext ==
  [ warnedAboutConfig |-> FALSE,
    pc                |-> "sleep",
    batch             |-> <<>>,
    idx               |-> 0,
    threadId          |-> null,
    jsx               |-> null,
    compiledJs        |-> null,
    message           |-> null,
    adapterCalls      |-> <<>>,
    tickResult        |-> "none",
    idleLog           |-> [total |-> 0, sinceConfigured |-> 0] ]

\* The worker variables take the values of context c.
Resume(c) ==
  /\ warnedAboutConfig' = c.warnedAboutConfig
  /\ pc' = c.pc
  /\ batch' = c.batch
  /\ idx' = c.idx
  /\ threadId' = c.threadId
  /\ jsx' = c.jsx
  /\ compiledJs' = c.compiledJs
  /\ message' = c.message
  /\ adapterCalls' = c.adapterCalls
  /\ tickResult' = c.tickResult
  /\ idleLog' = c.idleLog

\* The worker process is killed wherever it stands and started again: nothing
\* of it survives but what it wrote to the store.
Restart ==
  /\ envCount.restarts < MaxRestarts
  /\ Resume(startedContext)
  /\ envCount' = [envCount EXCEPT !.restarts = @ + 1]
  /\ UNCHANGED << storeVars, openAiApiKey, faults, parked, calls >>

\* Two worker processes run codexWorker.ts against the same store. The worker
\* variables hold the process that takes steps; the other one waits in parked
\* at one of its awaits (the first switch starts the second process).
ContextSwitch ==
  /\ envCount.switches < MaxSwitches
  /\ parked' = Some(context)
  /\ Resume(IF parked = null THEN startedContext ELSE Get(parked))
  /\ envCount' = [envCount EXCEPT !.switches = @ + 1]
  /\ UNCHANGED << storeVars, openAiApiKey, faults, calls >>

\* config.openAiApiKey is set or cleared while the loop runs.
ConfigChange ==
  /\ envCount.configChanges < MaxConfigChanges
  /\ openAiApiKey' = ~openAiApiKey
  /\ envCount' = [envCount EXCEPT !.configChanges = @ + 1]
  /\ UNCHANGED << storeVars, workerVars, faults, parked, calls >>

\* prompt_events begins or ceases to reject inserts.
EventLogFault ==
  /\ envCount.faultChanges < MaxFaultChanges
  /\ faults' = [faults EXCEPT !.eventLog = ~@]
  /\ envCount' = [envCount EXCEPT !.faultChanges = @ + 1]
  /\ UNCHANGED << storeVars, openAiApiKey, workerVars, parked, calls >>

\* prompts begins or ceases to reject statements.
StoreFault ==
  /\ envCount.faultChanges < MaxFaultChanges
  /\ faults' = [faults EXCEPT !.store = ~@]
  /\ envCount' = [envCount EXCEPT !.faultChanges = @ + 1]
  /\ UNCHANGED << storeVars, openAiApiKey, workerVars, parked, calls >>

\* The prompts these specifications take in, all of one owner.
MaxEnvPrompts == 1

EnvIntake(promptText, titleOutcome) ==
  /\ inserted < MaxEnvPrompts
  /\ Post("user-1", promptText, titleOutcome)

EnvApi ==
  \/ \E t \in PromptTextInputs, o \in TitleOutcomes : EnvIntake(t, o)
  \/ \E i \in 1..Min(inserted + 1, Len(Uuids)) : Delete("user-1", Uuids[i])

NextRestart == EnvApi \/ Worker \/ Restart

SpecRestart == Init /\ [][NextRestart]_vars

NextTwoWorkers ==
  \/ \E t \in PromptTextInputs, o \in TitleOutcomes : EnvIntake(t, o)
  \/ Worker
  \/ ContextSwitch

SpecTwoWorkers == Init /\ [][NextTwoWorkers]_vars

NextConfig == EnvApi \/ Worker \/ ConfigChange

SpecConfig == Init /\ [][NextConfig]_vars

NextEventFault == Next \/ EventLogFault

SpecEventFault == Init /\ [][NextEventFault]_vars

NextStoreFault == Next \/ StoreFault

SpecStoreFault == Init /\ [][NextStoreFault]_vars

\* The prompts of one owner the loop is run over when its progress is checked.
MaxLoopPrompts == 2

LoopIntake(promptText, titleOutcome) ==
  /\ inserted < MaxLoopPrompts
  /\ Post("user-1", promptText, titleOutcome)

NextLoop ==
  \/ \E t \in PromptTextInputs, o \in TitleOutcomes : LoopIntake(t, o)
  \/ \E i \in 1..Min(inserted + 1, Len(Uuids)) : Delete("user-1", Uuids[i])
  \/ Worker

\* The worker loop always takes its next step: tick and processPrompt only
\* await calls that return or throw, and sleep resolves. Intake and deletion
\* happen or not.
SpecLoop == Init /\ [][NextLoop]_vars /\ WF_vars(Worker)

\* More prompts than one tick takes: the backlog the worker has to work off.
Backlog == 3

BacklogIntake(promptText, titleOutcome) ==
  /\ inserted < Backlog
  /\ Post("user-1", promptText, titleOutcome)

NextBacklog ==
  \/ \E t \in PromptTextInputs, o \in TitleOutcomes : BacklogIntake(t, o)
  \/ \E i \in 1..Min(inserted + 1, Len(Uuids)) : Delete("user-1", Uuids[i])
  \/ Worker

\* As SpecLoop, with a backlog.
SpecBacklog == Init /\ [][NextBacklog]_vars /\ WF_vars(Worker)

\* ------------------------------------------------- the repository on its own
\* The exported repository functions called directly, in any order, as
\* tests/promptRepository.test.ts calls them (shouldPersistBuildLifecycle:
\* create, markPromptBuilding, savePromptBuildResult, markPromptFailed).

RepoThreadIds == {null, Some("thread-123")}

RepoErrorMessages == {"Sample error"}

RepoArtifacts ==
  { [ jsxSource     |-> "<App />",
      compiledJs    |-> "function App() { return null; }",
      previewSlug   |-> "preview-slug",
      sandboxConfig |-> [mode |-> "sandbox"] ] }

\* The ids a direct call is made with: those handed out so far and the next.
RepoCallIds == {Uuids[i] : i \in 1..Min(inserted + 1, Len(Uuids))}

RepoCreate(userId) ==
  /\ inserted < MaxPrompts
  /\ now < MaxClock
  /\ prompts' = InsertPrompt(createPrompt(
       [ userId     |-> userId,
         promptText |-> "Compose a control center layout",
         title      |-> "Control center" ]))
  /\ inserted' = inserted + 1
  /\ now' = now + 1
  /\ UNCHANGED << events, hasFailed, openAiApiKey, workerVars, envVars >>

RepoDelete(userId, promptId) ==
  /\ prompts' = deletePrompt(promptId, userId)
  /\ events' = CascadeEvents(DOMAIN deletePrompt(promptId, userId))
  /\ hasFailed' = hasFailed \cap DOMAIN deletePrompt(promptId, userId)
  /\ UNCHANGED << now, inserted, openAiApiKey, workerVars, envVars >>

RepoMarkBuilding(promptId, codexTaskId) ==
  /\ now < MaxClock
  /\ prompts' = markPromptBuilding(promptId, codexTaskId)
  /\ now' = now + 1
  /\ UNCHANGED << events, inserted, hasFailed, openAiApiKey, workerVars, envVars >>

RepoMarkFailed(promptId, errorMessage) ==
  /\ now < MaxClock
  /\ prompts' = markPromptFailed(promptId, errorMessage)
  /\ hasFailed' = hasFailed \cup ({promptId} \cap PromptIds)
  /\ now' = now + 1
  /\ UNCHANGED << events, inserted, openAiApiKey, workerVars, envVars >>

RepoSaveBuildResult(promptId, artifacts) ==
  /\ now < MaxClock
  /\ prompts' = savePromptBuildResult(promptId, artifacts)
  /\ now' = now + 1
  /\ UNCHANGED << events, inserted, hasFailed, openAiApiKey, workerVars, envVars >>

NextRepo ==
  \/ \E u \in Users : RepoCreate(u)
  \/ \E u \in Users, p \in RepoCallIds : RepoDelete(u, p)
  \/ \E p \in RepoCallIds, t \in RepoThreadIds : RepoMarkBuilding(p, t)
  \/ \E p \in RepoCallIds, m \in RepoErrorMessages : RepoMarkFailed(p, m)
  \/ \E p \in RepoCallIds, a \in RepoArtifacts : RepoSaveBuildResult(p, a)

SpecRepo == Init /\ [][NextRepo]_vars

\* --------------------------------------------- long error messages
\* markPromptFailed called with messages around the length it cuts at.

RECURSIVE Repeat(_, _)
Repeat(s, n) ==
  IF n = 0 THEN ""
  ELSE IF n % 2 = 1 THEN Repeat(s, n - 1) \o s
  ELSE Repeat(s \o s, n \div 2)

\* Error messages one short of the cut, at it, one over it and far over it;
\* the longer ones differ from the shorter within the part that is kept.
LongErrorMessages ==
  { Repeat("a", MaxFailureLength - 1),
    Repeat("b", MaxFailureLength),
    Repeat("c", MaxFailureLength) \o "!",
    Repeat("d", MaxFailureLength) \o Repeat("e", MaxFailureLength) }

\* The prompts created for it.
MaxLongErrorPrompts == 1

LongErrorCreate ==
  /\ inserted < MaxLongErrorPrompts
  /\ RepoCreate("user-1")

NextLongErrors ==
  \/ LongErrorCreate
  \/ \E p \in RepoCallIds, m \in RepoErrorMessages \cup LongErrorMessages :
       RepoMarkFailed(p, m)
  \/ \E p \in RepoCallIds, a \in RepoArtifacts : RepoSaveBuildResult(p, a)

SpecLongErrors == Init /\ [][NextLongErrors]_vars

\* ------------------------------------------------- the helpers on their own
\* buildPreviewSlug and fallbackTitle are functions of their argument alone;
\* here they are called with arguments beyond those the running service
\* passes, MaxCalls times, and calls keeps each argument with its result.

MaxCalls == 2

\* Prompt ids: the uuids the store hands out, and strings with few, no or
\* many alphanumeric characters.
PromptIdInputs ==
  { Uuids[1], Uuids[2], Uuids[3],
    "", "----", "----------", "_-_-x-_-_", "A-b", "0123456789abcdefXYZ" }

CallBuildPreviewSlug(promptId) ==
  /\ Len(calls) < MaxCalls
  /\ calls' = Append(calls, [ fn     |-> "buildPreviewSlug",
                              arg    |-> promptId,
                              result |-> buildPreviewSlug(promptId) ])
  /\ UNCHANGED << storeVars, openAiApiKey, workerVars, faults, parked, envCount >>

\* Prompt texts: empty, blank, short, padded, of MAX_TITLE_LENGTH characters
\* and one more once trimmed, and long with a blank where the cut falls.
TitleInputs ==
  { "", "   ", " \t\n", " nav bar ", "Untitled prompt",
    "  " \o Repeat("x", MAX_TITLE_LENGTH) \o " ",
    Repeat("y", MAX_TITLE_LENGTH + 1),
    Repeat("word ", 12) }

\* What fallbackTitle returned in the calls made so far.
FallbackTitles ==
  {calls[k].result : k \in {j \in 1..Len(calls) : calls[j].fn = "fallbackTitle"}}

\* fallbackTitle called on a prompt text or on a title it returned before
CallFallbackTitle(promptText) ==
  /\ Len(calls) < MaxCalls
  /\ calls' = Append(calls, [ fn     |-> "fallbackTitle",
                              arg    |-> promptText,
                              result |-> fallbackTitle(promptText) ])
  /\ UNCHANGED << storeVars, openAiApiKey, workerVars, faults, parked, envCount >>

\* What the SDK does in a call of runPromptThroughCodex: the turn's final
\* response is missing, blank, no JSON, an object without jsx, with a blank
\* jsx or with code; or thread.run rejects with the SDK's own error.
CodexCalls ==
  { [runError |-> null, finalResponse |-> r, threadId |-> Some("thread-1")] :
      r \in { null, Some("  "), Some("Sorry, I cannot help with that."), Some("{}"),
              Some("{\"jsx\":\"  \"}"),
              Some(" {\"jsx\":\"export default function App() { return <nav />; }\"} ") } }
  \cup
  { [runError |-> Some([name |-> "TypeError", message |-> "fetch failed"]),
     finalResponse |-> null, threadId |-> null] }

CallRunPromptThroughCodex(call) ==
  /\ Len(calls) < MaxCalls
  /\ calls' = Append(calls, [ fn     |-> "runPromptThroughCodex",
                              arg    |-> call,
                              result |-> runPromptThroughCodex(call) ])
  /\ UNCHANGED << storeVars, openAiApiKey, workerVars, faults, parked, envCount >>

\* What the SDK does in a title call: thread.run rejects, or the final
\* response is missing, no JSON, an object without title, with a blank title,
\* or with a title of six words in quotes.
TitleCalls ==
  { [runError |-> null, finalResponse |-> r] :
      r \in { null, Some("Top Nav Bar"), Some("{}"), Some("{\"title\":\"  \"}"),
              Some("{\"title\":\" Sticky  Top Nav Bar For Shops \"}") } }
  \cup { [runError |-> Some([name |-> "TypeError", message |-> "fetch failed"]),
          finalResponse |-> null] }

\* The prompt texts generatePromptTitle is called with on its own.
TitlePromptTexts == {"", "   ", " nav bar ", Repeat("word ", 12)}

\* generatePromptTitle returns (its try block has a catch-all): title is what
\* it returns, calledOut whether the SDK was reached.
CallGeneratePromptTitle(promptText, call) ==
  /\ Len(calls) < MaxCalls
  /\ calls' = Append(calls,
       [ fn     |-> "generatePromptTitle",
         arg    |-> [promptText |-> promptText, call |-> call, configured |-> openAiApiKey],
         result |-> [ threw     |-> FALSE,
                      calledOut |-> generatePromptTitleCallsOut(promptText),
                      title     |-> generatePromptTitle(promptText, titleAttempt(call)) ] ])
  /\ UNCHANGED << storeVars, openAiApiKey, workerVars, faults, parked, envCount >>

NextTitles ==
  \/ \E t \in TitlePromptTexts, c \in TitleCalls : CallGeneratePromptTitle(t, c)
  \/ ConfigChange

SpecTitles == Init /\ [][NextTitles]_vars

\* runPromptThroughCodex called on its own, the credential set or cleared
\* between calls.
NextCodex ==
  \/ \E c \in CodexCalls : CallRunPromptThroughCodex(c)
  \/ ConfigChange

SpecCodex == Init /\ [][NextCodex]_vars

NextHelpers ==
  \/ \E id \in PromptIdInputs : CallBuildPreviewSlug(id)
  \/ \E t \in TitleInputs \cup FallbackTitles : CallFallbackTitle(t)

SpecHelpers == Init /\ [][NextHelpers]_vars

\* ------------------------------------------------------------------- claims

\* The adapter calls of the current tick made for prompt id.
CallsFor(adapter, id) ==
  {k \in 1..Len(adapterCalls) :
     adapterCalls[k].adapter = adapter /\ adapterCalls[k].promptId = id}

\* The rows of the current batch with this id (one or none).
Selected(id) == {i \in 1..Len(batch) : batch[i].id = id}

\* processPrompt has ended for prompt id of the current batch.
Processed(id) == \E i \in Selected(id) : pc = "sleep" \/ i < idx

\* C1: in every state reached by intake, worker ticks (generation and
\* compilation succeeding or throwing) and owner deletions, a prompt whose
\* status is ready has a compiled artifact and no failure reason.
ReadyHasArtifactAndNoFailureReason ==
  \A p \in PromptIds :
    prompts[p].status = "ready" =>
      prompts[p].compiled_js # null /\ prompts[p].render_error = null

\* C1's case: the worker has built a prompt to ready.
SomePromptReady ==
  \E p \in PromptIds :
    /\ prompts[p].status = "ready"
    /\ \E k \in CallsFor("compile", p) : ~adapterCalls[k].threw

\* C2: a failed prompt always has a failure reason, and a prompt that failed
\* earlier and was then built successfully has none.
FailedHasReasonAndSuccessClearsIt ==
  \A p \in PromptIds :
    /\ prompts[p].status = "failed" => prompts[p].render_error # null
    /\ (p \in hasFailed /\ prompts[p].status = "ready") => prompts[p].render_error = null

\* C2's case: a prompt that failed earlier is ready now.
FailedPromptBuiltLater ==
  \E p \in hasFailed : prompts[p].status = "ready"

\* C3: with the single worker loop, intake and owner deletion, a pending or
\* building prompt has no compiled artifact.
UnbuiltHasNoArtifact ==
  \A p \in PromptIds :
    prompts[p].status \in {"pending", "building"} => prompts[p].compiled_js = null

\* C3's case: a prompt is building with its compilation done and its result
\* not yet saved, beside a prompt that is ready.
BuildingBeforeSave ==
  /\ pc = "saveResult"
  /\ prompt.id \in PromptIds
  /\ prompts[prompt.id].status = "building"
  /\ \E q \in PromptIds : prompts[q].status = "ready"

\* The generation call of the current tick made for prompt id.
GenerationFor(id) == adapterCalls[CHOOSE k \in CallsFor("generate", id) : TRUE]

\* C4: a pending prompt whose generation and compilation both succeeded is,
\* once its result is saved, ready with the two adapter outputs, the slug
\* derived from its id, a sandbox config and no failure reason; and no state
\* shows a ready prompt with one of its artifacts missing.
SuccessfulBuildIsReadyAtOnce ==
  /\ \A k \in 1..Len(adapterCalls) :
       LET c  == adapterCalls[k]
           id == c.promptId
       IN  ( /\ c.adapter = "compile"
             /\ ~c.threw
             /\ id \in PromptIds
             /\ \E i \in Selected(id) : batch[i].status = "pending"
             /\ ~(pc = "saveResult" /\ prompt.id = id) )
           => /\ prompts[id].status = "ready"
              /\ prompts[id].jsx_source = GenerationFor(id).output
              /\ prompts[id].compiled_js = c.output
              /\ prompts[id].preview_slug = Some(buildPreviewSlug(id))
              /\ prompts[id].sandbox_config # null
              /\ prompts[id].render_error = null
  /\ \A p \in PromptIds :
       prompts[p].status = "ready" =>
         /\ prompts[p].jsx_source # null
         /\ prompts[p].compiled_js # null
         /\ prompts[p].preview_slug # null
         /\ prompts[p].sandbox_config # null

\* C4's case: the tick has ended and the prompt it built is in the store.
BuiltPromptAfterTick ==
  /\ pc = "sleep"
  /\ tickResult = "returned"
  /\ \E k \in 1..Len(adapterCalls) :
       /\ adapterCalls[k].adapter = "compile"
       /\ ~adapterCalls[k].threw
       /\ adapterCalls[k].promptId \in PromptIds

\* C5: when generation throws for a selected prompt, compilation is never
\* invoked for it in that tick, and once its processing has ended the prompt
\* is failed with the error message as failure reason and has an error event.
GenerationErrorFailsPrompt ==
  \A k \in 1..Len(adapterCalls) :
    LET c  == adapterCalls[k]
        id == c.promptId
    IN  (c.adapter = "generate" /\ c.threw) =>
          /\ CallsFor("compile", id) = {}
          /\ (id \in PromptIds /\ Processed(id)) =>
               /\ prompts[id].status = "failed"
               /\ prompts[id].render_error = Some(c.message)
               /\ \E e \in 1..Len(events) :
                    events[e].prompt_id = id /\ events[e].level = "error"

\* C5's case: the tick has ended and the prompt whose generation threw is in
\* the store.
GenerationThrewAfterTick ==
  /\ pc = "sleep"
  /\ tickResult = "returned"
  /\ \E k \in 1..Len(adapterCalls) :
       /\ adapterCalls[k].adapter = "generate"
       /\ adapterCalls[k].threw
       /\ adapterCalls[k].promptId \in PromptIds

\* C6 as stated: when generation succeeds and compilation throws, the prompt
\* ends failed with both the generated source and the returned handle stored.
CompilationErrorKeepsSourceAndHandle ==
  \A k \in 1..Len(adapterCalls) :
    LET c  == adapterCalls[k]
        id == c.promptId
    IN  (c.adapter = "compile" /\ c.threw /\ id \in PromptIds /\ Processed(id)) =>
          /\ prompts[id].status = "failed"
          /\ prompts[id].jsx_source = GenerationFor(id).output
          /\ prompts[id].codex_task_id = GenerationFor(id).threadId

\* C6 as amended: when generation succeeds and compilation throws, the prompt
\* ends failed with the returned handle stored; the generated source is not
\* stored, jsx_source keeps the value it had when the prompt was selected.
CompilationErrorKeepsHandleOnly ==
  \A k \in 1..Len(adapterCalls) :
    LET c  == adapterCalls[k]
        id == c.promptId
    IN  (c.adapter = "compile" /\ c.threw /\ id \in PromptIds /\ Processed(id)) =>
          /\ prompts[id].status = "failed"
          /\ prompts[id].codex_task_id = GenerationFor(id).threadId
          /\ \A i \in Selected(id) : prompts[id].jsx_source = batch[i].jsx_source

\* C6's case: the tick has ended and the prompt whose compilation threw is in
\* the store.
CompilationThrewAfterTick ==
  /\ pc = "sleep"
  /\ tickResult = "returned"
  /\ \E k \in 1..Len(adapterCalls) :
       /\ adapterCalls[k].adapter = "compile"
       /\ adapterCalls[k].threw
       /\ adapterCalls[k].promptId \in PromptIds

\* What the adapters' results of this tick make of prompt id.
AdapterVerdict(id) ==
  IF \E k \in CallsFor("generate", id) \cup CallsFor("compile", id) : adapterCalls[k].threw
    THEN "failed" ELSE "ready"

\* C7: an adapter error never leaves processPrompt and never stops the batch:
\* when a tick has ended and none of its prompts was deleted, the tick
\* returned, generation was attempted for every prompt of the batch, and each
\* is failed or ready as its own adapter calls went.
BatchIsolation ==
  (pc = "sleep" /\ batch # <<>> /\ \A i \in 1..Len(batch) : batch[i].id \in PromptIds) =>
    /\ tickResult = "returned"
    /\ \A i \in 1..Len(batch) :
         /\ CallsFor("generate", batch[i].id) # {}
         /\ prompts[batch[i].id].status = AdapterVerdict(batch[i].id)

\* C7's case: a batch of two, the first's generation threw, the second was
\* built, and the tick is over.
FirstFailedSecondReady ==
  /\ pc = "sleep"
  /\ Len(batch) = 2
  /\ \A i \in 1..2 : batch[i].id \in PromptIds
  /\ \E k \in CallsFor("generate", batch[1].id) : adapterCalls[k].threw
  /\ \E k \in CallsFor("compile", batch[2].id) : ~adapterCalls[k].threw
  /\ prompts[batch[1].id].status = "failed"
  /\ prompts[batch[2].id].status = "ready"

\* The ids findPromptsAwaitingBuild returns when no limit cuts its result.
EligibleIds ==
  LET rows == findPromptsAwaitingBuild(Cardinality(PromptIds))
  IN  {rows[i].id : i \in 1..Len(rows)}

\* C8 as stated: a prompt left in failed stays in the eligible set.
FailedStaysEligible ==
  \A p \in PromptIds : prompts[p].status = "failed" => p \in EligibleIds

\* C8 as amended: a prompt left in failed is not in the eligible set; no tick
\* selects it and no step changes it, it stays failed until it is deleted.
FailedIsNotRetried ==
  [][ \A p \in PromptIds :
        prompts[p].status = "failed" =>
          /\ p \notin EligibleIds
          /\ p \in DOMAIN prompts' => prompts'[p] = prompts[p]
          /\ (pc = "sleep" /\ pc' = "recordProcessing") =>
               \A i \in 1..Len(batch') : batch'[i].id # p ]_vars

\* C8's case: a tick found work while a failed prompt was in the store, and
\* left that prompt out.
TickLeavesFailedOut ==
  /\ pc = "recordProcessing"
  /\ idx = 1
  /\ \E p \in PromptIds : prompts[p].status = "failed" /\ Selected(p) = {}

\* C9: a prompt that is ready when a tick starts is not in that tick's batch,
\* and no later step of the worker changes any of its fields; it only leaves
\* the store by deletion.
ReadyIsTerminal ==
  [][ \A p \in PromptIds :
        prompts[p].status = "ready" =>
          /\ p \in DOMAIN prompts' => prompts'[p] = prompts[p]
          /\ (pc = "sleep" /\ pc' = "recordProcessing") =>
               \A i \in 1..Len(batch') : batch'[i].id # p ]_vars

\* C9's case: a tick found work while a ready prompt was in the store, and
\* left that prompt out.
TickLeavesReadyOut ==
  /\ pc = "recordProcessing"
  /\ idx = 1
  /\ \E p \in PromptIds : prompts[p].status = "ready" /\ Selected(p) = {}

\* C10: for every limit, findPromptsAwaitingBuild returns at most limit rows
\* of the table, each pending or building, no row twice, in ascending
\* updated_at order; every pending or building prompt it leaves out is no
\* older than any it returns, and it leaves one out only when the limit is
\* reached, so a newly created (pending) prompt is in the eligible set.
AwaitingBuildIsOldestFirst ==
  \A limit \in 0..(Cardinality(PromptIds) + 1) :
    LET rows     == findPromptsAwaitingBuild(limit)
        returned == {rows[i].id : i \in 1..Len(rows)}
        leftOut  == {p \in PromptIds \ returned :
                       prompts[p].status \in {"pending", "building"}}
    IN  /\ Len(rows) <= limit
        /\ Cardinality(returned) = Len(rows)
        /\ \A i \in 1..Len(rows) :
             /\ rows[i].id \in PromptIds
             /\ rows[i] = prompts[rows[i].id]
             /\ rows[i].status \in {"pending", "building"}
        /\ \A i, j \in 1..Len(rows) : i < j => rows[i].updated_at <= rows[j].updated_at
        /\ \A p \in leftOut : \A i \in 1..Len(rows) :
             prompts[p].updated_at >= rows[i].updated_at
        /\ leftOut # {} => Len(rows) = limit

\* C10's case: two prompts await a build, one of them building, and a limit
\* of one returns the older and leaves the other out.
LimitLeavesNewerOut ==
  /\ Len(findPromptsAwaitingBuild(1)) = 1
  /\ \E p, q \in PromptIds :
       /\ p # q
       /\ prompts[p].status = "pending"
       /\ prompts[q].status = "building"
       /\ findPromptsAwaitingBuild(1)[1].id = q

\* The "prompt ready" events recorded for prompt id.
ReadyEvents(id) ==
  {k \in 1..Len(events) :
     events[k].prompt_id = id /\ events[k].message = "Codex worker: prompt ready"}

\* C11: once a prompt's preview_slug is set, no step changes it while the
\* prompt is stored, a second successful build of the same prompt included.
SlugNeverChanges ==
  [][ \A p \in PromptIds :
        (prompts[p].preview_slug # null /\ p \in DOMAIN prompts') =>
          prompts'[p].preview_slug = prompts[p].preview_slug ]_vars

\* C11's case: a prompt has been built to ready twice (by two worker
\* processes that both selected it) and carries its slug.
PromptBuiltTwice ==
  \E p \in PromptIds :
    /\ prompts[p].preview_slug = Some(buildPreviewSlug(p))
    /\ Cardinality(ReadyEvents(p)) >= 2

\* C12: a rejected prompt_events insert changes nothing of the build: a stored
\* prompt whose generation and compilation succeeded in this tick is ready
\* once its processing has ended, and a tick whose prompts are all still
\* stored does not end by throwing (stated for stored prompts, so that the
\* insert is rejected by the table and not for want of the row it refers to).
EventFailureIsHarmless ==
  /\ \A p \in PromptIds :
       (Processed(p) /\ \E k \in CallsFor("compile", p) : ~adapterCalls[k].threw) =>
         prompts[p].status = "ready"
  /\ (\A i \in 1..Len(batch) : batch[i].id \in PromptIds) => tickResult # "threw"

\* C13: a rejected statement on prompts (markPromptBuilding or
\* savePromptBuildResult) is never turned into a failed status: no stored
\* prompt is failed with the store's error as its failure reason.
StoreFailureNotTurnedIntoFailed ==
  \A p \in PromptIds :
    ~(prompts[p].status = "failed" /\ prompts[p].render_error = Some(StoreError))

\* C14: whatever the ticks do, the loop is again and again asleep with its
\* next tick due: no tick, returned or thrown, is the last one.
TicksRecur == []<>(pc = "sleep" /\ ENABLED Tick)

\* C14's case: a tick has thrown, and the tick after it has found work.
TickAfterThrownTick ==
  /\ tickResult = "threw"
  /\ pc = "recordProcessing"
  /\ idx = 1

\* The events of this level recorded for prompt id after its row was last written.
EventsAfterChange(id, level) ==
  {k \in 1..Len(events) :
     /\ events[k].prompt_id = id
     /\ events[k].level = level
     /\ events[k].created_at > prompts[id].updated_at}

\* C15: once the worker is past the event insert that follows the update, a
\* stored prompt that is ready has a "prompt ready" info event recorded after
\* its last change, and a stored prompt that is failed has a "build failed"
\* error event recorded after its last change.
StatusChangeHasEvent ==
  \A p \in PromptIds :
    /\ (prompts[p].status = "ready" /\ ~(pc = "recordReady" /\ prompt.id = p)) =>
         \E k \in EventsAfterChange(p, "info") :
           events[k].message = "Codex worker: prompt ready"
    /\ (prompts[p].status = "failed" /\ ~(pc = "recordFailed" /\ prompt.id = p)) =>
         \E k \in EventsAfterChange(p, "error") :
           events[k].message = "Codex worker: build failed"

\* C15's case: a tick has ended with one prompt of its batch ready and the
\* other failed, each with its event.
ReadyAndFailedBothLogged ==
  /\ pc = "sleep"
  /\ \E p, q \in PromptIds :
       /\ Processed(p) /\ Processed(q)
       /\ prompts[p].status = "ready" /\ EventsAfterChange(p, "info") # {}
       /\ prompts[q].status = "failed" /\ EventsAfterChange(q, "error") # {}

\* C16: with the single worker loop a stored prompt is building only while
\* the loop is inside processPrompt for that very prompt, so at most one
\* build is in flight; and every stored prompt of the batch before the
\* current one has ended ready or failed.
OneBuildAtATime ==
  /\ \A p \in PromptIds :
       prompts[p].status = "building" => (pc # "sleep" /\ prompt.id = p)
  /\ pc # "sleep" =>
       \A i \in 1..(idx - 1) :
         batch[i].id \in PromptIds => prompts[batch[i].id].status \in {"ready", "failed"}

\* C16's case: the second prompt of a batch is being built and the first one
\* has ended.
SecondPromptInFlight ==
  /\ pc = "generate"
  /\ idx = 2
  /\ {batch[1].id, batch[2].id} \subseteq PromptIds
  /\ prompts[batch[1].id].status \in {"ready", "failed"}
  /\ prompts[batch[2].id].status = "building"

\* The prompt a worker process in context c is inside processPrompt for, if any.
InFlight(c) == IF c.pc = "sleep" THEN {} ELSE {c.batch[c.idx].id}

\* The ids a tick starting now would take.
NextBatchIds ==
  LET rows == findPromptsAwaitingBuild(batchSize)
  IN  {rows[i].id : i \in 1..Len(rows)}

\* C17: nothing reserves a prompt for the process that selected it: while a
\* worker process is inside processPrompt for a stored prompt that is
\* pending or building, a tick of the other process would select that prompt
\* too (there being no more than batchSize such prompts).
InFlightPromptIsSelectedAgain ==
  \A p \in InFlight(context) \cup (IF parked = null THEN {} ELSE InFlight(Get(parked))) :
    (p \in PromptIds /\ prompts[p].status \in {"pending", "building"}) =>
      p \in NextBatchIds

\* C17's case: both worker processes are inside processPrompt for the same
\* stored prompt, and each has invoked generation for it.
BothProcessesBuildSamePrompt ==
  /\ parked # null
  /\ \E p \in PromptIds :
       /\ InFlight(context) = {p}
       /\ InFlight(Get(parked)) = {p}
       /\ CallsFor("generate", p) # {}
       /\ \E k \in 1..Len(Get(parked).adapterCalls) :
            /\ Get(parked).adapterCalls[k].adapter = "generate"
            /\ Get(parked).adapterCalls[k].promptId = p

\* C18: a stored prompt left building by a worker process that was stopped
\* is selected by the next tick (there being no more than batchSize prompts
\* awaiting a build), and every generation call of a tick is made with the
\* handle its prompt carried when the tick selected it.
InterruptedBuildIsResumed ==
  /\ pc = "sleep" =>
       \A p \in PromptIds : prompts[p].status = "building" => p \in NextBatchIds
  /\ \A k \in 1..Len(adapterCalls) :
       adapterCalls[k].adapter = "generate" =>
         \E i \in Selected(adapterCalls[k].promptId) :
           adapterCalls[k].input = batch[i].codex_task_id
  /\ \A p \in InFlight(context) :
       (p \in PromptIds /\ pc \in {"recordProcessing", "markBuilding", "generate"}) =>
         prompts[p].codex_task_id = prompt.codex_task_id

\* C18's case: after a restart the worker has invoked generation again for a
\* prompt that was building, with the handle persisted before the stop.
GenerationResumedAfterRestart ==
  /\ envCount.restarts > 0
  /\ \E k \in 1..Len(adapterCalls) :
       /\ adapterCalls[k].adapter = "generate"
       /\ adapterCalls[k].input = Some("thread-1")
       /\ \E i \in Selected(adapterCalls[k].promptId) : batch[i].status = "building"

\* C19: a tick run without a credential leaves the store, the batch and the
\* adapters alone and stays asleep; and warnedAboutConfig is set exactly when
\* the idle message has been logged since the last configured tick, which
\* happens at most once: the first unconfigured tick logs it, the following
\* ones do not, and a configured tick makes the next unconfigured one log it
\* again.
UnconfiguredTickIsIdle ==
  /\ [](/\ idleLog.sinceConfigured <= 1
        /\ warnedAboutConfig <=> (idleLog.sinceConfigured = 1))
  /\ [][ (Tick /\ ~openAiApiKey) =>
           /\ UNCHANGED << prompts, events, now, batch, adapterCalls, pc >>
           /\ idleLog'.total = idleLog.total + (IF warnedAboutConfig THEN 0 ELSE 1) ]_vars

\* C19's case: the credential is missing, a pending prompt waits untouched,
\* and the idle message has been logged a second time, a configured tick
\* having run since the first.
IdleLoggedAgain ==
  /\ ~openAiApiKey
  /\ pc = "sleep"
  /\ tickResult = "returned"
  /\ idleLog = [total |-> 2, sinceConfigured |-> 1]
  /\ \E p \in PromptIds : prompts[p].status = "pending"

\* C20: with the credential configured and the worker loop taking its steps,
\* again and again every stored prompt is ready or failed, also when more
\* prompts await a build than one tick takes. So a prompt stored at any
\* moment is, at a later one, deleted or ready or failed: none is postponed
\* forever.
NoPromptPostponedForever ==
  []<>(openAiApiKey => \A p \in PromptIds : prompts[p].status \in {"ready", "failed"})

\* C20's case: a tick has taken batchSize prompts and left a third eligible
\* one for a later tick.
BacklogExceedsBatch ==
  /\ pc = "recordProcessing"
  /\ idx = 1
  /\ Len(batch) = batchSize
  /\ Cardinality(EligibleIds) > batchSize

\* C21: deletePrompt(id, ownerId) matches one row, and removes exactly that
\* row, when the prompt exists and belongs to ownerId; for another owner's
\* prompt or an id that is not stored it matches none and leaves every row as
\* it was.  Its result is the number of matched rows.
DeleteIsOwnerScoped ==
  \A id \in RepoCallIds, u \in Users :
    IF id \in PromptIds /\ prompts[id].user_id = u
    THEN /\ Cardinality(deletePromptMatches(id, u)) = 1
         /\ DOMAIN deletePrompt(id, u) = PromptIds \ {id}
         /\ \A p \in PromptIds \ {id} : deletePrompt(id, u)[p] = prompts[p]
    ELSE /\ Cardinality(deletePromptMatches(id, u)) = 0
         /\ deletePrompt(id, u) = prompts

\* C21's case: a delete has removed one owner's prompt while a prompt of the
\* other owner, which the first owner's delete does not match, is stored.
DeleteLeftOtherOwnersPrompt ==
  /\ Cardinality(PromptIds) < inserted
  /\ \E p \in PromptIds : \E u \in Users :
       prompts[p].user_id # u /\ deletePromptMatches(p, u) = {}

\* C22: in every reachable state every event's prompt_id is the id of a stored
\* prompt: a deletion removes the prompt's events in the same step, and an
\* append for an id that is not stored is rejected and appends nothing.
EveryEventReferencesStoredPrompt ==
  \A k \in 1..Len(events) : events[k].prompt_id \in PromptIds

\* C22's case: a prompt of the batch was deleted after the worker had logged
\* events for it (its generation was called), the worker's next append for it
\* was rejected, and events of other prompts remain.
EventsOfDeletedPromptGone ==
  /\ tickResult = "threw"
  /\ events # << >>
  /\ \E i \in 1..Len(batch) :
       batch[i].id \notin PromptIds /\ CallsFor("generate", batch[i].id) # {}

\* C23: a POST has two outcomes.  With promptText missing, empty or blank it
\* is rejected and the prompts are as before; with any other text exactly one
\* row is added, of the requesting user, pending, with the text as sent
\* (untrimmed) and null codex_task_id, jsx_source, compiled_js, preview_slug
\* and render_error, every other row unchanged.
IntakeRejectsOrCreatesOnePending ==
  [][ \A u \in Users, t \in PromptTextInputs, o \in TitleOutcomes :
        Intake(u, t, o) =>
          IF (IF t = null THEN TRUE ELSE Trim(Get(t)) = "")
          THEN prompts' = prompts
          ELSE \E id \in DOMAIN prompts' :
                 /\ id \notin PromptIds
                 /\ DOMAIN prompts' = PromptIds \cup {id}
                 /\ \A p \in PromptIds : prompts'[p] = prompts[p]
                 /\ prompts'[id].user_id = u
                 /\ prompts'[id].status = "pending"
                 /\ prompts'[id].prompt_text = Get(t)
                 /\ prompts'[id].codex_task_id = null
                 /\ prompts'[id].jsx_source = null
                 /\ prompts'[id].compiled_js = null
                 /\ prompts'[id].preview_slug = null
                 /\ prompts'[id].render_error = null ]_vars

\* C23's case: intake has created a row whose text has leading and trailing
\* blanks, and the worker has not touched the row yet.
PendingPromptStoredAsSent ==
  \E p \in PromptIds :
    /\ prompts[p].prompt_text = " nav bar "
    /\ prompts[p].status = "pending"
    /\ prompts[p].updated_at = prompts[p].created_at

\* The first n characters of s, read off character by character.
IsFirstChars(r, s, n) ==
  /\ Len(r) = Min(n, Len(s))
  /\ \A i \in 1..Len(r) : CharAt(r, i) = CharAt(s, i)

\* C24: a markPromptFailed(id, message) step on a stored prompt leaves as its
\* render_error the first 2000 characters of message, and after every step
\* every stored render_error is at most 2000 characters long.
FailureReasonIsFirst2000Characters ==
  [][ /\ \A p \in PromptIds, m \in RepoErrorMessages \cup LongErrorMessages :
           RepoMarkFailed(p, m) =>
             /\ prompts'[p].render_error # null
             /\ IsFirstChars(Get(prompts'[p].render_error), m, 2000)
      /\ \A p \in DOMAIN prompts' :
           prompts'[p].render_error # null =>
             Len(Get(prompts'[p].render_error)) <= 2000 ]_vars

\* C24's case: a message longer than 2000 characters was passed and the
\* stored reason is its cut, exactly 2000 characters long.
LongMessageWasCut ==
  \E p \in PromptIds :
    /\ prompts[p].render_error # null
    /\ Len(Get(prompts[p].render_error)) = 2000
    /\ \E m \in LongErrorMessages :
         Len(m) > 2000 /\ IsFirstChars(Get(prompts[p].render_error), m, 2000)

\* C25: in every state reached by intake, the single worker loop and owner
\* deletions, a prompt with a non-null render_error has status failed.
FailureReasonOnlyWhenFailed ==
  \A p \in PromptIds :
    prompts[p].render_error # null => prompts[p].status = "failed"

\* C25's case: a prompt has failed and carries its reason while the worker,
\* in a later tick, is building another prompt.
FailedPromptKeptWhileOthersBuild ==
  \E p \in PromptIds :
    /\ prompts[p].render_error # null
    /\ Selected(p) = {}
    /\ pc \notin {"sleep", "crashed"}

\* Slugs worked out by hand from String.prototype.replace and slice.
SlugExamples ==
  { << "3f2a9c1e-7b4d-4e8a-9c1f-0a1b2c3d4e5f", "preview-3f2a9c1e7b4d" >>,
    << "3f2a9c1e-7b4d-4a11-8d2e-ffeeddccbbaa", "preview-3f2a9c1e7b4d" >>,
    << "b81d4fae-7dec-41d0-a765-00a0c91e6bf6", "preview-b81d4fae7dec" >>,
    << "", "preview-" >>,
    << "----", "preview-----" >>,
    << "----------", "preview---------" >>,
    << "_-_-x-_-_", "preview-x" >>,
    << "A-b", "preview-Ab" >>,
    << "0123456789abcdefXYZ", "preview-0123456789ab" >> }

\* The positions of id that hold a letter or a digit.
AlphanumericPositions(id) == {i \in 1..Len(id) : CharAt(id, i) \in Alphanumeric}

\* C26: the slug of an id is "preview-" followed by the first 12 of the id's
\* letters and digits in their order, or, when the id has none, by the first
\* 8 characters of the id as they are; two calls with the same id give the
\* same slug.
SlugIsFunctionOfId ==
  \A k \in 1..Len(calls) :
    calls[k].fn = "buildPreviewSlug" =>
      LET id   == calls[k].arg
          slug == calls[k].result
          rest == SubSeq(slug, 9, Len(slug))
          kept == AlphanumericPositions(id)
      IN  /\ \E e \in SlugExamples : e[1] = id /\ e[2] = slug
          /\ SubSeq(slug, 1, 8) = "preview-"
          /\ IF kept # {}
               THEN /\ Len(rest) = Min(12, Cardinality(kept))
                    /\ \A i \in 1..Len(rest) : \E j \in kept :
                         /\ Cardinality({m \in kept : m <= j}) = i
                         /\ CharAt(rest, i) = CharAt(id, j)
               ELSE /\ Len(rest) = Min(8, Len(id))
                    /\ \A i \in 1..Len(rest) : CharAt(rest, i) = CharAt(id, i)
          /\ \A j \in 1..Len(calls) :
               (calls[j].fn = "buildPreviewSlug" /\ calls[j].arg = id)
                 => calls[j].result = slug

\* C26's case: the function was called on an id whose hyphen falls within
\* its first 12 characters and on an id without any letter or digit.
SlugOfUuidAndOfHyphens ==
  \E j, k \in 1..Len(calls) :
    /\ calls[j].fn = "buildPreviewSlug" /\ calls[k].fn = "buildPreviewSlug"
    /\ calls[j].arg = "3f2a9c1e-7b4d-4e8a-9c1f-0a1b2c3d4e5f"
    /\ calls[k].arg = "----------"
    /\ calls[k].result = "preview---------"

\* Titles worked out by hand from String.prototype.trim, slice and trimEnd.
TitleExamples ==
  { << "", "Untitled prompt" >>,
    << "   ", "Untitled prompt" >>,
    << " \t\n", "Untitled prompt" >>,
    << " nav bar ", "nav bar" >>,
    << "nav bar", "nav bar" >>,
    << "Untitled prompt", "Untitled prompt" >>,
    << "  xxxxxxxxxxxxxxxxxxxxxxxxxxxxxxxxxxxxxxxxxxxxxxxx ",
       "xxxxxxxxxxxxxxxxxxxxxxxxxxxxxxxxxxxxxxxxxxxxxxxx" >>,
    << "xxxxxxxxxxxxxxxxxxxxxxxxxxxxxxxxxxxxxxxxxxxxxxxx",
       "xxxxxxxxxxxxxxxxxxxxxxxxxxxxxxxxxxxxxxxxxxxxxxxx" >>,
    << "yyyyyyyyyyyyyyyyyyyyyyyyyyyyyyyyyyyyyyyyyyyyyyyyy",
       "yyyyyyyyyyyyyyyyyyyyyyyyyyyyyyyyyyyyyyyyyyyyy..." >>,
    << "yyyyyyyyyyyyyyyyyyyyyyyyyyyyyyyyyyyyyyyyyyyyy...",
       "yyyyyyyyyyyyyyyyyyyyyyyyyyyyyyyyyyyyyyyyyyyyy..." >>,
    << "word word word word word word word word word word word word ",
       "word word word word word word word word word..." >>,
    << "word word word word word word word word word...",
       "word word word word word word word word word..." >> }


\* text[a..b] is text without its leading and trailing whitespace (b < a when
\* it is all whitespace).
IsTrimmedSpan(text, a, b) ==
  /\ \A i \in 1..Len(text) : (i < a \/ i > b) => CharAt(text, i) \in Whitespace
  /\ IF a > b THEN a = b + 1
     ELSE CharAt(text, a) \notin Whitespace /\ CharAt(text, b) \notin Whitespace

\* C27: fallbackTitle returns "Untitled prompt" for text that is empty once
\* trimmed, the trimmed text itself when that has at most 48 characters, and
\* otherwise at most 48 characters made of a prefix of the trimmed text and
\* "..."; called on a title it returned, it returns that title.
TitleFallbackIsTotalAndIdempotent ==
  \A k \in 1..Len(calls) :
    calls[k].fn = "fallbackTitle" =>
      LET text  == calls[k].arg
          title == calls[k].result
      IN  /\ \E e \in TitleExamples : e[1] = text /\ e[2] = title
          /\ \E a \in 1..(Len(text) + 1), b \in 0..Len(text) :
               /\ IsTrimmedSpan(text, a, b)
               /\ IF a > b THEN title = "Untitled prompt"
                  ELSE IF b - a + 1 <= 48 THEN title = SubSeq(text, a, b)
                  ELSE /\ Len(title) <= 48
                       /\ Len(title) >= 3
                       /\ SubSeq(title, Len(title) - 2, Len(title)) = "..."
                       /\ \A i \in 1..(Len(title) - 3) :
                            CharAt(title, i) = CharAt(text, a + i - 1)
          /\ (\E j \in 1..Len(calls) :
                calls[j].fn = "fallbackTitle" /\ calls[j].result = text)
               => title = text

\* C27's case: a text of more than 48 characters was cut, and the function
\* was then called on the title it had returned.
CutTitleGivenBack ==
  \E j, k \in 1..Len(calls) :
    /\ j < k
    /\ calls[j].fn = "fallbackTitle" /\ calls[k].fn = "fallbackTitle"
    /\ Len(calls[j].arg) > 48
    /\ calls[j].result # calls[j].arg
    /\ calls[k].arg = calls[j].result
    /\ calls[k].result = calls[k].arg

\* The id arrays a caller passes: the stored ids, each at most once, in any order.
PromptIdArrays ==
  {<< >>} \cup {<<p>> : p \in PromptIds}
          \cup {s \in PromptIds \X PromptIds : s[1] # s[2]}

\* The per-prompt limits of the calls examined (the route's default is 5).
PerPromptLimits == {1, 2, 5}

\* C28 as stated: for every array of stored ids and every limit N, each
\* requested prompt that has events is mapped to its min(N, number of its
\* events) newest events, newest first, whatever the other prompts have.
EachPromptGetsItsNewestEvents ==
  \A ids \in PromptIdArrays, N \in PerPromptLimits :
    \A i \in 1..Len(ids) :
      LET own    == SelectSeq(events, LAMBDA e : e.prompt_id = ids[i])
          result == listPromptEventsForPrompts(ids, N)
      IN  own # << >> =>
            /\ ids[i] \in DOMAIN result
            /\ Len(result[ids[i]]) = Min(N, Len(own))
            /\ \A k \in 1..Len(result[ids[i]]) :
                 result[ids[i]][k] = own[Len(own) + 1 - k]

\* C29: a markPromptBuilding, markPromptFailed or savePromptBuildResult call
\* on a stored prompt stamps it with the clock value of the call, which no
\* other prompt exceeds, and puts it first in its owner's list; after every
\* step listPromptsForUser(u) holds exactly u's rows, newest updated_at first.
MutationsBumpUpdatedAtAndListIsNewestFirst ==
  [][ /\ \A p \in PromptIds \cap DOMAIN prompts' :
           ( \/ \E t \in RepoThreadIds : RepoMarkBuilding(p, t)
             \/ \E m \in RepoErrorMessages : RepoMarkFailed(p, m)
             \/ \E a \in RepoArtifacts : RepoSaveBuildResult(p, a) )
           => /\ prompts'[p].updated_at = now
              /\ prompts'[p].updated_at > prompts[p].updated_at
              /\ listPromptsForUser(prompts[p].user_id)'[1] = prompts'[p]
      /\ \A u \in Users : \A listed \in {listPromptsForUser(u)'} :
           /\ Len(listed) = Cardinality({p \in DOMAIN prompts' : prompts'[p].user_id = u})
           /\ {listed[i].id : i \in 1..Len(listed)}
                = {p \in DOMAIN prompts' : prompts'[p].user_id = u}
           /\ \A i \in 1..Len(listed) : listed[i] = prompts'[listed[i].id]
           /\ \A i, j \in 1..Len(listed) :
                i < j => listed[i].updated_at > listed[j].updated_at ]_vars

\* C29's case: an owner has two prompts and the one created first is listed
\* first, having been mutated after the other.
OlderPromptListedFirst ==
  \E u \in Users :
    /\ Len(listPromptsForUser(u)) = 2
    /\ listPromptsForUser(u)[1].created_at < listPromptsForUser(u)[2].created_at
    /\ listPromptsForUser(u)[1].updated_at > listPromptsForUser(u)[2].updated_at

\* C30: no step changes the id, user_id, prompt_text, title or created_at of a
\* prompt that is stored before and after it.
CreationValuesNeverChange ==
  [][ \A p \in PromptIds \cap DOMAIN prompts' :
        /\ prompts'[p].id = prompts[p].id
        /\ prompts'[p].user_id = prompts[p].user_id
        /\ prompts'[p].prompt_text = prompts[p].prompt_text
        /\ prompts'[p].title = prompts[p].title
        /\ prompts'[p].created_at = prompts[p].created_at ]_vars

\* C30's case: a prompt has gone through the worker's updates to ready, or
\* through a failed build, and another one was deleted meanwhile.
BuiltPromptAfterDeletion ==
  /\ Cardinality(PromptIds) < inserted
  /\ \E p \in PromptIds :
       /\ prompts[p].status \in {"ready", "failed"}
       /\ prompts[p].updated_at > prompts[p].created_at
       /\ prompts[p].id = p

\* C31: when the compilation adapter is invoked for a stored prompt, the
\* handle generation returned is the stored one; it still is once a
\* compilation failure has been written as failed; a generation that returns
\* the handle the prompt was selected with goes on without a store write, and
\* the second markPromptBuilding is only ever made with a differing handle.
HandleSavedBeforeCompilation ==
  [][ /\ ((\E o \in CompilationOutcomes : Compile(o)) /\ prompt.id \in PromptIds)
           => prompts[prompt.id].codex_task_id = threadId
      /\ (MarkFailed /\ prompt.id \in PromptIds /\ CallsFor("compile", prompt.id) # {})
           => /\ prompts'[prompt.id].status = "failed"
              /\ prompts'[prompt.id].codex_task_id = GenerationFor(prompt.id).threadId
      /\ \A o \in GenerationOutcomes :
           (Generate(o) /\ ~o.threw /\ prompt.codex_task_id = Some(o.threadId))
             => pc' = "recordJsx" /\ prompts' = prompts
      /\ SaveThread
           => /\ prompt.codex_task_id # threadId
              /\ prompt.id \in PromptIds => prompts'[prompt.id].codex_task_id = threadId
    ]_vars

\* C31's case: a build interrupted after its handle was saved is taken up
\* again, generation gives the same handle back, compilation then throws and
\* the prompt is failed with that handle still stored.
FailedAfterResumeKeepsHandle ==
  /\ envCount.restarts > 0
  /\ pc = "recordFailed"
  /\ prompt.id \in PromptIds
  /\ prompt.codex_task_id = Some("thread-1")
  /\ \E k \in CallsFor("compile", prompt.id) : adapterCalls[k].threw
  /\ prompts[prompt.id].status = "failed"
  /\ prompts[prompt.id].codex_task_id = Some("thread-1")

\* The events of prompt id, oldest first.
EventsOf(id) == SelectSeq(events, LAMBDA e : e.prompt_id = id)

\* C32: the events of a stored prompt's build are, in this order, the info
\* "processing" event with the status the prompt was selected with (written
\* while the stored status is still that one), the info "JSX received" event
\* with the handle, present only if generation returned, and one closing
\* event, info "prompt ready" with the slug or error "build failed" with the
\* error message; nothing follows the closing event, and a build that went
\* as far as generation and has ended has it.
BuildEventsInFixedOrder ==
  \A p \in PromptIds :
    LET own == EventsOf(p)
    IN  /\ \A k \in 1..Len(own) :
             \/ /\ own[k].message = "Codex worker: processing prompt"
                /\ own[k].level = "info"
                /\ k = 1
                /\ \A i \in Selected(p) : own[k].context.status = batch[i].status
             \/ /\ own[k].message = "Codex worker: JSX received"
                /\ own[k].level = "info"
                /\ k = 2
                /\ Some(own[k].context.threadId) = prompts[p].codex_task_id
                /\ Selected(p) # {} =>
                     \E c \in CallsFor("generate", p) :
                       ~adapterCalls[c].threw /\ adapterCalls[c].threadId = prompts[p].codex_task_id
             \/ /\ own[k].message = "Codex worker: prompt ready"
                /\ own[k].level = "info"
                /\ k = 3 /\ k = Len(own)
                /\ own[k - 1].message = "Codex worker: JSX received"
                /\ Some(own[k].context.previewSlug) = prompts[p].preview_slug
             \/ /\ own[k].message = "Codex worker: build failed"
                /\ own[k].level = "error"
                /\ k \in {2, 3} /\ k = Len(own)
                /\ Some(own[k].context.error) = prompts[p].render_error
        /\ (pc = "markBuilding" /\ prompt.id = p) =>
             /\ Len(own) = 1
             /\ own[1].context.status = prompts[p].status
        /\ (Selected(p) # {} /\ \E c \in CallsFor("generate", p) : adapterCalls[c].threw) =>
             \A k \in 1..Len(own) : own[k].message # "Codex worker: JSX received"
        /\ (Processed(p) /\ CallsFor("generate", p) # {}) =>
             /\ Len(own) >= 2
             /\ own[Len(own)].message \in {"Codex worker: prompt ready",
                                           "Codex worker: build failed"}

\* C32's case: one tick has built two prompts, the first through all three
\* events to ready, the second to failed without a JSX event.
ReadyThenFailedWithoutJsxEvent ==
  /\ Len(batch) = 2
  /\ {batch[1].id, batch[2].id} \subseteq PromptIds
  /\ Processed(batch[1].id) /\ Processed(batch[2].id)
  /\ Len(EventsOf(batch[1].id)) = 3
  /\ EventsOf(batch[1].id)[3].message = "Codex worker: prompt ready"
  /\ Len(EventsOf(batch[2].id)) = 2
  /\ EventsOf(batch[2].id)[2].message = "Codex worker: build failed"

\* The calls of runPromptThroughCodex that met unusable model output:
\* malformed JSON, no jsx member, or a jsx that is blank.
OutputRejections ==
  {k \in 1..Len(calls) :
     /\ calls[k].fn = "runPromptThroughCodex"
     /\ calls[k].result.threw
     /\ Get(calls[k].result.error).message \in
          { "Codex returned malformed JSON: Unexpected token",
            "Codex did not provide JSX in the structured response" }}

\* The calls that were rejected for the missing credential or by the SDK.
UnavailableRejections ==
  {k \in 1..Len(calls) :
     /\ calls[k].fn = "runPromptThroughCodex"
     /\ calls[k].result.threw
     /\ \/ Get(calls[k].result.error).message = "Codex SDK is not configured. Set OPENAI_API_KEY."
        \/ calls[k].arg.runError = Some(Get(calls[k].result.error))}

\* C33 as stated: the rejections for unusable output carry one error kind,
\* which is not the kind of a not-configured or transport rejection, and a
\* rejected call hands back neither handle nor source.
OutputErrorsAreAKindOfTheirOwn ==
  /\ \A j, k \in OutputRejections :
       Get(calls[j].result.error).name = Get(calls[k].result.error).name
  /\ \A j \in OutputRejections, k \in UnavailableRejections :
       Get(calls[j].result.error).name # Get(calls[k].result.error).name
  /\ \A k \in OutputRejections \cup UnavailableRejections :
       calls[k].result.threadId = null /\ calls[k].result.jsx = null

\* The fallback titles of the texts generatePromptTitle is called with, worked
\* out by hand.
TitleCallFallbacks ==
  { << "", "Untitled prompt" >>,
    << "   ", "Untitled prompt" >>,
    << " nav bar ", "nav bar" >>,
    << "word word word word word word word word word word word word ",
       "word word word word word word word word word..." >> }

\* The title calls whose answer holds a title that can be used.
UsableTitleCalls ==
  { c \in TitleCalls :
      c.runError = null
      /\ c.finalResponse = Some("{\"title\":\" Sticky  Top Nav Bar For Shops \"}") }

\* C34: a call of generatePromptTitle without a credential, or with a text
\* that is blank, does not reach the SDK and returns the fallback title of the
\* text; a call whose SDK call threw or gave no usable title returns the
\* fallback title too; and no call throws.
TitleGenerationFallsBack ==
  \A i \in 1..Len(calls) :
    calls[i].fn = "generatePromptTitle" =>
      LET a == calls[i].arg
          r == calls[i].result
          blank == a.promptText \in {"", "   "}
      IN  /\ ~r.threw
          /\ (~a.configured \/ blank) =>
               (~r.calledOut /\ << a.promptText, r.title >> \in TitleCallFallbacks)
          /\ (a.call.runError # null \/ a.call \notin UsableTitleCalls) =>
               << a.promptText, r.title >> \in TitleCallFallbacks

\* Witness of C34: one call made without a credential though the SDK would
\* have given a usable title, and one made with the credential whose SDK call
\* threw; both gave the fallback title of a text longer than the limit.
FallbackWithoutCredentialAndAfterThrow ==
  /\ \E i \in 1..Len(calls) :
       /\ calls[i].fn = "generatePromptTitle"
       /\ ~calls[i].arg.configured
       /\ calls[i].arg.call \in UsableTitleCalls
       /\ Len(calls[i].arg.promptText) > MAX_TITLE_LENGTH
       /\ ~calls[i].result.calledOut
       /\ calls[i].result.title = "word word word word word word word word word..."
  /\ \E i \in 1..Len(calls) :
       /\ calls[i].fn = "generatePromptTitle"
       /\ calls[i].arg.configured
       /\ calls[i].arg.call.runError # null
       /\ calls[i].result.calledOut
       /\ calls[i].result.title = "word word word word word word word word word..."

\* The four artifact fields of a row, in the order of the update that writes them.
ArtifactsOf(row) ==
  << row.jsx_source, row.compiled_js, row.preview_slug, row.sandbox_config >>

\* C35: after every step each stored prompt has its four artifact fields all
\* null or all set; a prompt the step has created has them all null; and a
\* step that changes one of them on a stored prompt is the save of a build
\* result: it leaves the prompt ready with all four set.
ArtifactsWrittenOnlyTogether ==
  [][ \A p \in DOMAIN prompts' :
        LET after == ArtifactsOf(prompts'[p])
        IN  /\ (\A k \in 1..4 : after[k] = null) \/ (\A k \in 1..4 : after[k] # null)
            /\ p \notin PromptIds => \A k \in 1..4 : after[k] = null
            /\ (p \in PromptIds /\ after # ArtifactsOf(prompts[p])) =>
                 /\ pc = "saveResult"
                 /\ p = prompt.id
                 /\ prompts'[p].status = "ready"
                 /\ \A k \in 1..4 : after[k] # null
  ]_vars

\* Witness of C35: one prompt is ready with the four fields set, while another,
\* whose JSX the generation returned and whose compilation threw, is failed
\* with the four fields null.
ReadyHasAllFourFailedHasNone ==
  \E p, q \in PromptIds :
    /\ prompts[p].status = "ready"
    /\ \A k \in 1..4 : ArtifactsOf(prompts[p])[k] # null
    /\ prompts[q].status = "failed"
    /\ \E k \in CallsFor("generate", q) : ~adapterCalls[k].threw
    /\ \E k \in CallsFor("compile", q) : adapterCalls[k].threw
    /\ \A k \in 1..4 : ArtifactsOf(prompts[q])[k] = null

\* C36: markPromptFailed called for a stored prompt, whatever its status,
\* leaves it failed with the message as render_error and with the handle and
\* the four artifact fields it had; markPromptBuilding called for it without a
\* handle leaves it building with the handle and the four fields it had.
MarkingKeepsHandleAndArtifacts ==
  [][ \A p \in PromptIds :
        /\ (\E m \in RepoErrorMessages : RepoMarkFailed(p, m)) =>
             /\ prompts'[p].status = "failed"
             /\ prompts'[p].render_error = Some("Sample error")
             /\ prompts'[p].codex_task_id = prompts[p].codex_task_id
             /\ ArtifactsOf(prompts'[p]) = ArtifactsOf(prompts[p])
        /\ RepoMarkBuilding(p, null) =>
             /\ prompts'[p].status = "building"
             /\ prompts'[p].codex_task_id = prompts[p].codex_task_id
             /\ ArtifactsOf(prompts'[p]) = ArtifactsOf(prompts[p])
  ]_vars

\* Witness of C36: a prompt was created, its build result saved in the next
\* statement and markPromptFailed called in the one after: it is failed and
\* holds the four artifact fields of the build.
FailedFromReadyKeepsBuild ==
  \E p \in PromptIds :
    /\ prompts[p].status = "failed"
    /\ prompts[p].render_error = Some("Sample error")
    /\ prompts[p].updated_at = prompts[p].created_at + 2
    /\ ArtifactsOf(prompts[p]) =
         << Some("<App />"), Some("function App() { return null; }"),
            Some("preview-slug"), Some([mode |-> "sandbox"]) >>

\* The ids of prompts that were created and are no longer stored.
DeletedIds == {Uuids[i] : i \in 1..inserted} \ PromptIds

\* C37: a prompt that was deleted stays deleted.  After every step no prompt
\* and no event with the id of a deleted prompt is stored, and a worker step
\* taken while the prompt being processed is deleted leaves all prompts and all
\* events as they were.
DeletedPromptNeverComesBack ==
  [][ /\ \A d \in DeletedIds :
           /\ d \notin DOMAIN prompts'
           /\ \A k \in 1..Len(events') : events'[k].prompt_id # d
      /\ (Worker /\ idx \in 1..Len(batch) /\ prompt.id \in DeletedIds) =>
           (prompts' = prompts /\ events' = events)
  ]_vars

\* Witness of C37: a prompt of the batch was deleted while in processing, after
\* its compilation had thrown; the worker's append of the failure event for
\* its id has been rejected, and another prompt is stored.
WorkerWroteForDeletedPrompt ==
  /\ tickResult = "threw"
  /\ PromptIds # {}
  /\ \E i \in 1..Len(batch) :
       /\ batch[i].id \in DeletedIds
       /\ \E k \in CallsFor("compile", batch[i].id) : adapterCalls[k].threw
\* The worker states in which processPrompt awaits an event insert.
EventAppendSteps == {"recordProcessing", "recordJsx", "recordReady", "recordFailed"}

\* C38: while the prompt in processing is deleted, a worker step that is an
\* event insert appends nothing and raises the reference error: outside the
\* try block and inside the catch block the error ends the tick, inside the try
\* block it enters the catch block, whose own insert ends the tick; no worker
\* step ends processPrompt for the deleted prompt in any other way than with
\* the tick rejecting.  When the tick rejects, the prompts after it in the
\* batch have had no adapter call in this tick, those selected as pending have
\* no event, and those still stored are as the tick selected them, pending or
\* building.
DeletionMidBuildEndsTheTick ==
  [][ (Worker /\ idx \in 1..Len(batch) /\ prompt.id \in DeletedIds) =>
        /\ idx' \in {idx, 0}
        /\ idx' = 0 => (tickResult' = "threw" /\ pc' = "sleep")
        /\ pc \in EventAppendSteps =>
             /\ events' = events
             /\ pc \in {"recordProcessing", "recordFailed"} => tickResult' = "threw"
             /\ pc \in {"recordJsx", "recordReady"} =>
                  (pc' = "markFailed" /\ message' = Some(ForeignKeyViolation))
        /\ tickResult' = "threw" =>
             \A j \in (idx + 1)..Len(batch) :
               /\ CallsFor("generate", batch[j].id) = {}
               /\ batch[j].status = "pending" => EventsOf(batch[j].id)' = << >>
               /\ batch[j].id \in DOMAIN prompts' =>
                    /\ prompts'[batch[j].id] = batch[j]
                    /\ batch[j].status \in AwaitingBuildStatuses
  ]_vars

\* Witness of C38: the tick has rejected; the first prompt of its batch is
\* deleted and its generation had been called; the second is stored, pending,
\* without any event and without an adapter call.
SecondOfBatchLeftPending ==
  /\ tickResult = "threw"
  /\ Len(batch) = 2
  /\ batch[1].id \in DeletedIds
  /\ CallsFor("generate", batch[1].id) # {}
  /\ batch[2].id \in PromptIds
  /\ prompts[batch[2].id].status = "pending"
  /\ EventsOf(batch[2].id) = << >>
  /\ CallsFor("generate", batch[2].id) = {}

\* C39: no two stored prompts with different ids hold the same preview_slug.
PreviewSlugsAreUnique ==
  \A p, q \in PromptIds :
    (p # q /\ prompts[p].preview_slug # null /\ prompts[q].preview_slug # null) =>
      prompts[p].preview_slug # prompts[q].preview_slug

====
